---- MODULE Spec2Model ----
(***************************************************************************)
(* Model of the RKE2 cluster bootstrap orchestrator, RKE2Installer.Run in  *)
(* internal/rke2/rke2.go, with the remote hosts as the environment: every  *)
(* remote command (probe, transfer, install step) returns an outcome the   *)
(* orchestrator does not control, so each is a nondeterministic choice.    *)
(* Hosts are the entries of config.Hosts in declaration order; host i has  *)
(* the address i, so addresses are distinct.                               *)
(***************************************************************************)
EXTENDS Integers, Sequences, FiniteSets, TLC

\* Number of configured hosts (len(r.config.Hosts)).
NumHosts == 3

Hosts == 1..NumHosts

\* The string values of RKE2Status.Status (rke2.go:1601-1640):
\*   "unknown"             = "未知"
\*   "check-failed"        = "检查失败"
\*   "absent"              = "未安装"
\*   "installed-not-running" = "已安装未运行"
\*   "running-not-ready"   = "服务运行中但节点未就绪"
\*   "ready"               = "运行中"
StCheckFailed == "check-failed"
StAbsent == "absent"
StInstalledNotRunning == "installed-not-running"
StRunningNotReady == "running-not-ready"
StReady == "ready"

\* Raw role tags as they may appear in the configuration file.
RawTags == {"etcd", "master", "worker", "control", "ETCD", " Master "}

\* strings.TrimSpace(strings.ToLower(role)) on the raw tags above.
TrimLower(tag) ==
    CASE tag = "ETCD" -> "etcd"
      [] tag = " Master " -> "master"
      [] tag = " " -> ""
      [] OTHER -> tag

\* The role lists a host of the model may be declared with.
RoleChoices ==
    { <<"etcd">>, <<"master">>, <<"ETCD", " Master ">>, <<"worker">>, <<"control">> }

VARIABLES
    config,        \* config.Hosts: host -> [Role: sequence of raw tags]
    pc,            \* position of Run
    cpc,           \* position inside the current install call ("none" outside)
    idx,           \* index of the current loop over hosts (1-based)
    tries,         \* loop counter i of waitForServerReady / waitForClusterReady
                   \* (0 outside the loop)
    elapsed,       \* loop variable of the phase-6 status monitor (0 outside)
    sleeps,        \* time.Sleep calls made so far by the phase-6 monitor loop
    allRunning,    \* whether the last status check of the phase-6 monitor found
                   \* every host "运行中": "yes" or "no" ("none" outside phase 6)
    probedReady,   \* hosts the phase-1 probe found "运行中", kept while the
                   \* rollout (phases 2-4) acts on hosts, {} from phase 5 on
    serverReady,   \* waitForServerReady(seed) has returned nil
    installCalls,  \* hosts passed to installRKE2OnServer/installRKE2OnAgent, in order
    call,          \* the install call in progress (NoCall outside a call)
    lastCmd,       \* the last remote command issued
    result,        \* return value of Run: "none" while running, "ok" or "error"
    errKind,       \* which return statement produced the error
    finalStatus,   \* finalStatus of phase 7, or NoStatus
    failedHosts,   \* failedHosts of phase 7
    warnings,      \* warnings logged by the skip path and by phase 7
    cancelled,     \* the caller has asked for the run to be cancelled
    sent,          \* hosts on which transferRKE2Artifacts has returned nil, in order
    validated,     \* hosts on which validateFilesOnHost has returned nil, in order
    configFile,    \* the main config file written by the install call in
                   \* progress (NoConfig before the write and outside a call)
    sig,           \* checkRKE2Status on one host: what the remote commands see
    status,        \* checkRKE2Status on one host: status.Status
    ips,           \* host -> host.IP
    results,       \* the map results of checkRKE2Status: address -> status
    localInfo,     \* transferFileWithProgress: localInfo
    remoteInfo,    \* transferFileWithProgress: remoteInfo, err of line 913
    finalInfo,     \* transferFileWithProgress: finalInfo, err of line 934
    cmds,          \* transferFileWithProgress: the commands issued, in order
    ret,           \* return value of the function under study
    artifacts,     \* transferRKE2Artifacts: artifact -> required
    taints         \* host -> the taints getRecommendedTaints returned for it

\* The variables of the functions studied on their own.
fnvars == <<sig, status, ips, results, localInfo, remoteInfo, finalInfo, cmds, ret,
            artifacts, taints>>

vars == <<config, pc, cpc, idx, tries, elapsed, sleeps, allRunning, probedReady, serverReady,
          installCalls, call, lastCmd, result, errKind, finalStatus, failedHosts,
          warnings, cancelled, sent, validated, configFile, fnvars>>


\* ------------------------------------------------------------------------
\* Topology resolution
\* ------------------------------------------------------------------------

\* r.config.Hosts as the list the range loops walk.
HostList == [i \in 1..NumHosts |-> i]

normalizeRoles(roles) ==
    LET F[i \in 0..Len(roles)] ==
            IF i = 0 THEN <<>>
            ELSE IF TrimLower(roles[i]) # ""
                 THEN Append(F[i - 1], TrimLower(roles[i]))
                 ELSE F[i - 1]
    IN  F[Len(roles)]

hasRole(roles, targetRole) == \E i \in 1..Len(roles) : roles[i] = targetRole

RolesOf(h) == normalizeRoles(config[h].Role)

getEtcdHosts ==
    SelectSeq(HostList, LAMBDA h : hasRole(RolesOf(h), "etcd") \/ hasRole(RolesOf(h), "master"))

getMasterHosts ==
    SelectSeq(HostList, LAMBDA h : hasRole(RolesOf(h), "master"))

getAgentHosts ==
    SelectSeq(HostList, LAMBDA h : /\ hasRole(RolesOf(h), "worker")
                                   /\ ~hasRole(RolesOf(h), "master")
                                   /\ ~hasRole(RolesOf(h), "etcd"))

\* validateRoles of the config package: TRUE when the role list is accepted.
validateRoles(roles) ==
    /\ Len(roles) > 0
    /\ \A i \in 1..Len(roles) :
          \/ TrimLower(roles[i]) = ""
          \/ TrimLower(roles[i]) \in {"etcd", "master", "worker", "control"}

getServerHosts ==
    SelectSeq(HostList, LAMBDA h : hasRole(RolesOf(h), "master") \/ hasRole(RolesOf(h), "etcd"))

\* Mutant of getFirstEtcdHost: the first host, whatever its roles.
getFirstEtcdHost_firstHost == Head(HostList)

\* The first etcd-or-master host, 0 for nil.
getFirstEtcdHost ==
    IF getEtcdHosts = <<>> THEN 0 ELSE Head(getEtcdHosts)

\* ------------------------------------------------------------------------
\* Node state probe (checkRKE2Status), one host
\* ------------------------------------------------------------------------

\* What checkRKE2Installed returns: (true, nil), (false, nil) or (false, err).
InstalledResults == {"installed", "notInstalled", "error"}

\* Mutant of StatusOf: a failed installed check leaves the initial status.
StatusOf_errorLeavesUnknown(installed, active, nodeReady) ==
    IF installed = "error" THEN "unknown"
    ELSE IF installed = "notInstalled" THEN StAbsent
    ELSE IF active
         THEN (IF nodeReady THEN StReady ELSE StRunningNotReady)
         ELSE StInstalledNotRunning

\* The status checkRKE2Status assigns from the installed check, the
\* "systemctl is-active" exit status and checkKubernetesNodeReady.
StatusOf(installed, active, nodeReady) ==
    IF installed = "error" THEN StCheckFailed
    ELSE IF installed = "notInstalled" THEN StAbsent
    ELSE IF active
         THEN (IF nodeReady THEN StReady ELSE StRunningNotReady)
         ELSE StInstalledNotRunning

Statuses ==
    { StatusOf(i, a, n) : i \in InstalledResults, a \in BOOLEAN, n \in BOOLEAN }

\* A result of checkRKE2Status: one entry per host (addresses are distinct).
StatusMaps == [Hosts -> Statuses]

NoStatus == [h \in Hosts |-> "unknown"]

\* runningCount of lines 141-150, 351-360 and finalRunningCount of 391-407.
RunningCount(st) == Cardinality({h \in Hosts : st[h] = StReady})

\* What the remote commands of one probe of one host see and how they end:
\*   serverUnit, agentUnit     a unit file of rke2-server / rke2-agent exists
\*   binary                    /usr/local/bin/rke2 or /var/lib/rancher/rke2/bin/rke2
\*   dirs                      /var/lib/rancher/rke2 and /etc/rancher/rke2
\*   serverActive, agentActive systemctl is-active rke2-server / rke2-agent
\*   checkFails                the check command ends with an error other than
\*                             exit status 1 (the transport failed)
\*   activeFails               the transport of the is-active command failed
\*   kube                      output of the kubectl query on the seed, "error"
\*                             when the command returns an error
ProbeSignals ==
    [serverUnit : BOOLEAN, agentUnit : BOOLEAN, binary : BOOLEAN, dirs : BOOLEAN,
     serverActive : BOOLEAN, agentActive : BOOLEAN, checkFails : BOOLEAN,
     activeFails : BOOLEAN, kube : {"True", "False", "NotFound", "error"}]

NoSig == [kube |-> "none"]

\* Exit status of the script of checkRKE2Installed (lines 2036-2091).
checkCmdExit(s) ==
    IF s.serverActive \/ s.agentActive THEN 0
    ELSE IF s.binary /\ s.dirs /\ (s.serverUnit \/ s.agentUnit) THEN 0
    ELSE 1

\* checkRKE2Installed (lines 2093-2113) on what the host shows.
checkRKE2Installed(s) ==
    IF s.checkFails THEN "error"
    ELSE IF checkCmdExit(s) = 1 THEN "notInstalled"
    ELSE "installed"

\* isServer of line 1593.
IsServer(roles) == hasRole(roles, "etcd") \/ hasRole(roles, "master")

\* "systemctl is-active <serviceName>" returns no error (lines 1621-1630).
ServiceIsActive(roles, s) ==
    /\ ~s.activeFails
    /\ IF IsServer(roles) THEN s.serverActive ELSE s.agentActive

\* checkKubernetesNodeReady (lines 1650-1678).
checkKubernetesNodeReady(s) == getFirstEtcdHost # 0 /\ s.kube = "True"

\* The status one iteration of checkRKE2Status gives host h.
HostStatus(h, s) ==
    StatusOf(checkRKE2Installed(s), ServiceIsActive(RolesOf(h), s),
             checkKubernetesNodeReady(s))

\* The map results before any entry is written.
NoResults == [a \in Hosts |-> "none"]

\* results[host.IP] = status
PutResult(res, a, st) == [res EXCEPT ![a] = st]

\* ------------------------------------------------------------------------
\* The generated main config file (createRKE2Config, lines 1261-1324)
\* ------------------------------------------------------------------------

\* The port of the join target "https://%s:9345".
SupervisorPort == 9345

\* A config file without a "server:" line has the join target NoJoin.
NoJoin == <<>>
JoinTarget(address) == <<"https", address, SupervisorPort>>

\* Mutant of getServerURL: the address of the last server host.
getServerURL_lastServer ==
    IF Len(getServerHosts) > 0 THEN ips[getServerHosts[Len(getServerHosts)]] ELSE 0

\* getServerURL with getNodeIP: the address of the first server host, 0 for "".
getServerURL ==
    IF Len(getServerHosts) > 0 THEN ips[Head(getServerHosts)] ELSE 0

NoConfig == [kind |-> "none", server |-> NoJoin, disable |-> {}]

\* The text of config.yaml that createRKE2Config writes, as the template
\* chosen (kind), its "server:" line and its "disable-*: true" lines. The
\* token and the node section are the same in every template.
MainConfig(h, nodeType, isFirstServer) ==
    LET roles == RolesOf(h)
        etcd == hasRole(roles, "etcd")
        master == hasRole(roles, "master")
        controlPlane == {"apiserver", "controller-manager", "scheduler"}
    IN  IF nodeType = "server"
        THEN IF isFirstServer
             THEN IF etcd /\ ~master
                  THEN [kind |-> "first-etcd", server |-> NoJoin, disable |-> controlPlane]
                  ELSE [kind |-> "first-master", server |-> NoJoin, disable |-> {}]
             ELSE IF etcd /\ ~master
                  THEN [kind |-> "etcd", server |-> JoinTarget(getServerURL),
                        disable |-> controlPlane]
                  ELSE IF master /\ ~etcd
                  THEN [kind |-> "master", server |-> JoinTarget(getServerURL),
                        disable |-> {"etcd"}]
                  ELSE IF master /\ etcd
                  THEN [kind |-> "mixed", server |-> JoinTarget(getServerURL),
                        disable |-> {}]
                  ELSE [kind |-> "empty", server |-> NoJoin, disable |-> {}]
        ELSE [kind |-> "worker", server |-> JoinTarget(getServerURL), disable |-> {}]

\* ------------------------------------------------------------------------
\* File infos (FileInfo, getLocalFileInfo, getRemoteFileInfo)
\* ------------------------------------------------------------------------

\* Largest file size of the model.
MaxSize == 2

\* FileInfo: size and md5 (sizeHuman is only logged).
FileInfos == [size : 0..MaxSize, md5 : {"md5-a", "md5-b"}]

\* No FileInfo obtained yet, and the (nil, err) return of the info functions.
NoInfo == [size |-> -1, md5 |-> "none"]
ErrInfo == [size |-> -1, md5 |-> "error"]

\* The comparison of lines 914, 939, 834 and 877.
SameFile(a, b) == a.size = b.size /\ a.md5 = b.md5

\* ------------------------------------------------------------------------
\* Taint recommendation (getRecommendedTaints, hasWorkerNodes)
\* ------------------------------------------------------------------------

ControlPlaneNoSchedule == "node-role.kubernetes.io/control-plane:NoSchedule"
ControlPlanePreferNoSchedule == "node-role.kubernetes.io/control-plane:PreferNoSchedule"

\* The node_taint lists a host of the model may be declared with.
TaintChoices ==
    { <<>>,
      <<"dedicated=infra:NoSchedule">>,
      <<"dedicated=infra:NoExecute", "role=edge:PreferNoSchedule">> }

\* Mutant of hasWorkerNodes: any host with the tag worker counts.
hasWorkerNodes_anyWorkerTag ==
    \E h \in Hosts : hasRole(RolesOf(h), "worker")

hasWorkerNodes ==
    \E h \in Hosts : /\ hasRole(RolesOf(h), "worker")
                     /\ ~hasRole(RolesOf(h), "etcd")
                     /\ ~hasRole(RolesOf(h), "master")

\* Mutant of getRecommendedTaints: the user's taints of a control-plane host
\* are replaced by the recommended one.
getRecommendedTaints_overridesUser(h) ==
    IF ~IsServer(RolesOf(h))
    THEN config[h].NodeTaint
    ELSE IF hasWorkerNodes
         THEN <<ControlPlaneNoSchedule>>
         ELSE <<ControlPlanePreferNoSchedule>>

getRecommendedTaints(h) ==
    IF Len(config[h].NodeTaint) > 0
    THEN config[h].NodeTaint
    ELSE IF ~IsServer(RolesOf(h))
         THEN <<>>
         ELSE IF hasWorkerNodes
              THEN <<ControlPlaneNoSchedule>>
              ELSE <<ControlPlanePreferNoSchedule>>

NoTaints == [h \in Hosts |-> "none"]

\* ------------------------------------------------------------------------
\* Initial state
\* ------------------------------------------------------------------------

NoCall == [host |-> 0, nodeType |-> "none", first |-> FALSE, check |-> "none"]
NoCmd == [host |-> 0, kind |-> "none", ok |-> TRUE]

\* The values of Run's variables, config and pc apart, when Run starts.
RunIdle ==
    /\ cpc = "none"
    /\ idx = 1
    /\ tries = 0
    /\ elapsed = 0
    /\ sleeps = 0
    /\ allRunning = "none"
    /\ probedReady = {}
    /\ serverReady = FALSE
    /\ installCalls = <<>>
    /\ call = NoCall
    /\ lastCmd = NoCmd
    /\ result = "none"
    /\ errKind = "none"
    /\ finalStatus = NoStatus
    /\ failedHosts = {}
    /\ warnings = {}
    /\ cancelled = FALSE
    /\ sent = <<>>
    /\ validated = <<>>
    /\ configFile = NoConfig

\* The values of the variables of a function that is not running.
ProbeIdle == sig = NoSig /\ status = "unknown" /\ results = NoResults
DistinctIps == ips = [h \in Hosts |-> h]
TransferIdle ==
    /\ localInfo = NoInfo /\ remoteInfo = NoInfo /\ finalInfo = NoInfo
    /\ cmds = <<>>
ArtifactIdle == artifacts = <<>>
TaintIdle == taints = NoTaints

Init ==
    /\ config \in [Hosts -> [Role : RoleChoices]]
    /\ pc = "start"
    /\ RunIdle
    /\ ProbeIdle /\ DistinctIps /\ TransferIdle /\ ArtifactIdle /\ TaintIdle
    /\ ret = "none"

\* Run returns the error of kind k.
ReturnError(k) ==
    /\ pc' = "done"
    /\ result' = "error"
    /\ errKind' = k

ReturnNil ==
    /\ pc' = "done"
    /\ result' = "ok"
    /\ errKind' = errKind

\* ------------------------------------------------------------------------
\* Run, lines 84-177: topology and the phase-1 probe
\* ------------------------------------------------------------------------

ResolveTopology ==
    /\ pc = "start"
    /\ IF getFirstEtcdHost = 0
       THEN ReturnError("noSeed")
       ELSE pc' = "probe" /\ UNCHANGED <<result, errKind>>
    /\ UNCHANGED <<fnvars, cancelled, allRunning, sent, validated, configFile, config, cpc, idx, tries, elapsed, sleeps, probedReady, serverReady,
                   installCalls, call, lastCmd, finalStatus, failedHosts, warnings>>

\* The phase-1 decision of line 153: skip the rollout or not.
AllRunning(st) == RunningCount(st) = NumHosts

CheckInitialStatus ==
    /\ pc = "probe"
    /\ \E st \in StatusMaps :
         /\ probedReady' = {h \in Hosts : st[h] = StReady}
         /\ lastCmd' = [host |-> NumHosts, kind |-> "probe", ok |-> TRUE]
         /\ IF AllRunning(st)
            THEN pc' = "skipWait" /\ tries' = 0 /\ idx' = idx
            ELSE pc' = "transferDirs" /\ idx' = 1 /\ tries' = tries
    /\ UNCHANGED <<fnvars, cancelled, allRunning, sent, validated, configFile, config, cpc, elapsed, sleeps, serverReady, installCalls, call,
                   result, errKind, finalStatus, failedHosts, warnings>>

\* ------------------------------------------------------------------------
\* waitForClusterReady and its two call sites (lines 162-172 and 326-328)
\* ------------------------------------------------------------------------

\* "for i := 0; i < 60; i++" of waitForServerReady and of waitForClusterReady.
ServerReadyAttempts == 60
ClusterReadyAttempts == 60

\* Mutants of ClusterWaitFailureAborts: both call sites treated alike.
ClusterWaitFailureAborts_always(site) == TRUE
ClusterWaitFailureAborts_never(site) == FALSE

\* Whether Run returns the error of waitForClusterReady at the call site pc.
ClusterWaitFailureAborts(site) == site = "waitCluster"

ClusterProbe(ok) == [host |-> getFirstEtcdHost, kind |-> "clusterReady", ok |-> ok]

\* One attempt of waitForClusterReady on the all-ready path; on return, Run
\* logs (a warning on error) and returns nil.
SkipPathWaitForClusterReady ==
    /\ pc = "skipWait"
    /\ tries < ClusterReadyAttempts
    /\ \E ok \in BOOLEAN :
         /\ lastCmd' = ClusterProbe(ok)
         /\ IF ok
            THEN ReturnNil /\ tries' = 0 /\ warnings' = warnings
            ELSE /\ tries' = tries + 1
                 /\ IF tries + 1 < ClusterReadyAttempts
                    THEN UNCHANGED <<pc, result, errKind, warnings>>
                    ELSE IF ClusterWaitFailureAborts(pc)
                         THEN ReturnError("waitCluster") /\ warnings' = warnings
                         ELSE ReturnNil /\ warnings' = warnings \cup {"clusterNotReady"}
    /\ UNCHANGED <<fnvars, cancelled, allRunning, sent, validated, configFile, config, cpc, idx, elapsed, sleeps, probedReady, serverReady,
                   installCalls, call, finalStatus, failedHosts>>

\* One attempt of waitForClusterReady after the worker phase (phase 5).
WaitForClusterReady ==
    /\ pc = "waitCluster"
    /\ tries < ClusterReadyAttempts
    /\ \E ok \in BOOLEAN :
         /\ lastCmd' = ClusterProbe(ok)
         /\ IF ok
            THEN pc' = "monitor" /\ tries' = 0 /\ UNCHANGED <<result, errKind>>
            ELSE /\ tries' = tries + 1
                 /\ IF tries + 1 < ClusterReadyAttempts
                    THEN UNCHANGED <<pc, result, errKind>>
                    ELSE IF ClusterWaitFailureAborts(pc)
                         THEN ReturnError("waitCluster")
                         ELSE pc' = "monitor" /\ UNCHANGED <<result, errKind>>
    /\ UNCHANGED <<fnvars, cancelled, allRunning, sent, validated, configFile, config, cpc, idx, elapsed, sleeps, probedReady, serverReady,
                   installCalls, call, finalStatus, failedHosts, warnings>>

\* ------------------------------------------------------------------------
\* Phases 2 and 3: artifact distribution and package validation, all hosts
\* ------------------------------------------------------------------------

\* transferOfflineResourcesToAllNodes, step 1 for host idx: createRKE2Directories.
CreateRKE2Directories ==
    /\ pc = "transferDirs"
    /\ \E ok \in BOOLEAN :
         /\ lastCmd' = [host |-> HostList[idx], kind |-> "mkdir", ok |-> ok]
         /\ IF ok
            THEN pc' = "transferFiles" /\ UNCHANGED <<result, errKind>>
            ELSE ReturnError("transfer")
    /\ UNCHANGED <<fnvars, cancelled, allRunning, sent, validated, configFile, config, cpc, idx, tries, elapsed, sleeps, probedReady, serverReady,
                   installCalls, call, finalStatus, failedHosts, warnings>>

\* transferOfflineResourcesToAllNodes, step 2 for host idx: transferRKE2Artifacts
\* (mkdir, every artifact, chmod), then the next host or phase 3.
TransferRKE2Artifacts ==
    /\ pc = "transferFiles"
    /\ \E ok \in BOOLEAN :
         /\ lastCmd' = [host |-> HostList[idx], kind |-> "transfer", ok |-> ok]
         /\ IF ~ok
            THEN ReturnError("transfer") /\ idx' = idx /\ sent' = sent
            ELSE /\ UNCHANGED <<result, errKind>>
                 /\ sent' = Append(sent, HostList[idx])
                 /\ IF idx < NumHosts
                    THEN pc' = "transferDirs" /\ idx' = idx + 1
                    ELSE pc' = "validateLocal" /\ idx' = 1
    /\ UNCHANGED <<fnvars, cancelled, allRunning, validated, configFile, config, cpc, tries, elapsed, sleeps, probedReady, serverReady,
                   installCalls, call, finalStatus, failedHosts, warnings>>

\* validatePackageIntegrityOnAllNodes, lines 2166-2174: the local file infos.
AddLocalFileInfos ==
    /\ pc = "validateLocal"
    /\ \E ok \in BOOLEAN :
         IF ok
         THEN pc' = "validate" /\ UNCHANGED <<result, errKind>>
         ELSE ReturnError("validate")
    /\ UNCHANGED <<fnvars, cancelled, allRunning, sent, validated, configFile, config, cpc, idx, tries, elapsed, sleeps, probedReady, serverReady,
                   installCalls, call, lastCmd, finalStatus, failedHosts, warnings>>

\* Mutant of ValidateFilesOnHost: only the first host is validated.
ValidateFilesOnHost_firstHostOnly ==
    /\ pc = "validate"
    /\ \E ok \in BOOLEAN :
         /\ lastCmd' = [host |-> HostList[idx], kind |-> "validate", ok |-> ok]
         /\ IF ~ok
            THEN ReturnError("validate") /\ idx' = idx /\ validated' = validated
            ELSE /\ UNCHANGED <<result, errKind>>
                 /\ validated' = Append(validated, HostList[idx])
                 /\ pc' = "seed" /\ idx' = 1
    /\ UNCHANGED <<fnvars, cancelled, allRunning, sent, configFile, config, cpc, tries, elapsed, sleeps, probedReady,
                   serverReady, installCalls, call, finalStatus, failedHosts, warnings>>

\* validatePackageIntegrityOnAllNodes, lines 2177-2191: validateFilesOnHost on
\* host idx, then the next host or phase 4.
ValidateFilesOnHost ==
    /\ pc = "validate"
    /\ \E ok \in BOOLEAN :
         /\ lastCmd' = [host |-> HostList[idx], kind |-> "validate", ok |-> ok]
         /\ IF ~ok
            THEN ReturnError("validate") /\ idx' = idx /\ validated' = validated
            ELSE /\ UNCHANGED <<result, errKind>>
                 /\ validated' = Append(validated, HostList[idx])
                 /\ IF idx < NumHosts
                    THEN pc' = pc /\ idx' = idx + 1
                    ELSE pc' = "seed" /\ idx' = 1
    /\ UNCHANGED <<fnvars, cancelled, allRunning, sent, configFile, config, cpc, tries, elapsed, sleeps, probedReady, serverReady,
                   installCalls, call, finalStatus, failedHosts, warnings>>

\* ------------------------------------------------------------------------
\* Phase 4: install calls (installRKE2OnServer, installRKE2OnAgent)
\* ------------------------------------------------------------------------

\* Which error Run returns when the install call of phase p fails.
InstallErrKind(p) ==
    CASE p = "seed" -> "seedInstall"
      [] p = "etcd" -> "etcdInstall"
      [] p = "master" -> "masterInstall"
      [] p = "worker" -> "workerInstall"

\* Run calls installRKE2OnServer(h, first) or installRKE2OnAgent(h).
BeginCall(h, nodeType, first) ==
    /\ installCalls' = Append(installCalls, h)
    /\ call' = [host |-> h, nodeType |-> nodeType, first |-> first, check |-> "pending"]
    /\ cpc' = "check"

\* The install call returns nil: Run goes on after the call site.
CallReturnsNil ==
    /\ cpc' = "none"
    /\ call' = NoCall
    /\ UNCHANGED <<result, errKind>>
    /\ IF pc = "seed"
       THEN pc' = "waitServer" /\ tries' = 0 /\ idx' = idx
       ELSE pc' = pc /\ idx' = idx + 1 /\ tries' = tries

\* The install call returns an error: Run returns it (lines 207-209, 245-247,
\* 279-281, 306-308).
CallReturnsError ==
    /\ cpc' = "none"
    /\ call' = NoCall
    /\ ReturnError(InstallErrKind(pc))
    /\ UNCHANGED <<idx, tries>>

\* Step 1 of Run's phase 4: the install call on the seed.
InstallFirstServer ==
    /\ pc = "seed"
    /\ cpc = "none"
    /\ BeginCall(getFirstEtcdHost, "server", TRUE)
    /\ UNCHANGED <<fnvars, cancelled, allRunning, sent, validated, configFile, config, pc, idx, tries, elapsed, sleeps, probedReady, serverReady,
                   lastCmd, result, errKind, finalStatus, failedHosts, warnings>>

\* Step 0 of an install call: checkRKE2Installed and the branch it selects.
\* An error of the check is logged and the full installation goes on.
\* Mutant of StepAfterCheck: an installed host is reinstalled.
StepAfterCheck_alwaysFull(r) == "config"
\* Mutant of StepAfterCheck: an error of the check is taken for "installed".
StepAfterCheck_errorAsInstalled(r) == IF r = "notInstalled" THEN "config" ELSE "start"

StepAfterCheck(r) == IF r = "installed" THEN "start" ELSE "config"

CheckRKE2Installed ==
    /\ cpc = "check"
    /\ \E r \in InstalledResults :
         /\ call' = [call EXCEPT !.check = r]
         /\ lastCmd' = [host |-> call.host, kind |-> "checkInstalled", ok |-> r # "error"]
         /\ cpc' = StepAfterCheck(r)
    /\ UNCHANGED <<fnvars, cancelled, allRunning, sent, validated, configFile, config, pc, idx, tries, elapsed, sleeps, probedReady, serverReady,
                   installCalls, result, errKind, finalStatus, failedHosts, warnings>>

\* Whether the failure of a step makes the install call return an error: the
\* service start of the already-installed branch only logs a warning
\* (lines 549-553 and 616-620), every other step returns its error.
\* Mutant of StepFailureAborts: the error of the install script is dropped.
StepFailureAborts_ignoreScript(check, step) ==
    ~(check = "installed" /\ step = "start") /\ step # "script"

StepFailureAborts(check, step) == ~(check = "installed" /\ step = "start")

\* Mutant of NextStep: the install script is skipped.
NextStep_skipScript(c, step) ==
    CASE step = "config" -> "start"
      [] step = "script" -> "start"
      [] step = "start" -> IF c.first THEN "kubectl" ELSE "return"
      [] step = "kubectl" -> "waitNode"
      [] step = "waitNode" -> "return"

\* The step that follows a step that succeeded (or whose failure was only
\* logged); "return" when the call returns nil.
NextStep(c, step) ==
    CASE step = "config" -> "script"
      [] step = "script" -> "start"
      [] step = "start" -> IF c.first THEN "kubectl" ELSE "return"
      [] step = "kubectl" -> "waitNode"
      [] step = "waitNode" -> "return"

InstallStep(step) ==
    /\ cpc = step
    /\ \E ok \in BOOLEAN :
         /\ lastCmd' = [host |-> call.host, kind |-> step, ok |-> ok]
         /\ IF ok \/ ~StepFailureAborts(call.check, step)
            THEN IF NextStep(call, step) = "return"
                 THEN CallReturnsNil
                 ELSE /\ cpc' = NextStep(call, step)
                      /\ UNCHANGED <<pc, idx, tries, call, result, errKind>>
            ELSE CallReturnsError
    /\ configFile' = IF cpc' = "none" THEN NoConfig
                     ELSE IF step = "config"
                          THEN MainConfig(call.host, call.nodeType, call.first)
                          ELSE configFile
    /\ UNCHANGED <<fnvars, cancelled, allRunning, sent, validated, config, elapsed, sleeps, probedReady, serverReady, installCalls,
                   finalStatus, failedHosts, warnings>>

CreateRKE2Config == InstallStep("config")
ExecuteRKE2Install == InstallStep("script")
StartRKE2Service == InstallStep("start")
ConfigureKubectl == InstallStep("kubectl")
WaitForNodeReady == InstallStep("waitNode")

\* Mutant of OnServerReadyTimeout: the error is dropped.
OnServerReadyTimeout_continue == "continue"

\* What Run does when waitForServerReady has used up its attempts
\* (lines 218-220).
OnServerReadyTimeout == "abort"

\* One attempt of waitForServerReady on the seed.
WaitForServerReady ==
    /\ pc = "waitServer"
    /\ tries < ServerReadyAttempts
    /\ \E ok \in BOOLEAN :
         /\ lastCmd' = [host |-> getFirstEtcdHost, kind |-> "serverReady", ok |-> ok]
         /\ IF ok
            THEN /\ serverReady' = TRUE
                 /\ pc' = "etcd" /\ idx' = 1 /\ tries' = 0
                 /\ UNCHANGED <<result, errKind>>
            ELSE /\ tries' = tries + 1
                 /\ serverReady' = serverReady
                 /\ IF tries + 1 < ServerReadyAttempts
                    THEN UNCHANGED <<pc, idx, result, errKind>>
                    ELSE IF OnServerReadyTimeout = "abort"
                         THEN ReturnError("waitServer") /\ idx' = idx
                         ELSE pc' = "etcd" /\ idx' = 1 /\ UNCHANGED <<result, errKind>>
    /\ UNCHANGED <<fnvars, cancelled, allRunning, sent, validated, configFile, config, cpc, elapsed, sleeps, probedReady, installCalls, call,
                   finalStatus, failedHosts, warnings>>

\* The hosts the loop of phase p walks.
PhaseList(p) ==
    CASE p = "etcd" -> getEtcdHosts
      [] p = "master" -> getMasterHosts
      [] p = "worker" -> getAgentHosts

\* The server loops skip the seed by address (lines 234 and 268).
SkipsHost(p, h) == p # "worker" /\ h = getFirstEtcdHost

\* One iteration of the loop of phase p up to its install call, or the end of
\* the loop.
PhaseLoop(p, nextPc) ==
    /\ pc = p
    /\ cpc = "none"
    /\ IF idx > Len(PhaseList(p))
       THEN /\ pc' = nextPc /\ idx' = 1 /\ tries' = 0
            /\ call' = call
            /\ probedReady' = IF nextPc = "waitCluster" THEN {} ELSE probedReady
            /\ UNCHANGED <<installCalls, cpc>>
       ELSE IF SkipsHost(p, PhaseList(p)[idx])
            THEN /\ idx' = idx + 1
                 /\ UNCHANGED <<pc, tries, installCalls, call, cpc, probedReady>>
            ELSE /\ BeginCall(PhaseList(p)[idx], IF p = "worker" THEN "agent" ELSE "server", FALSE)
                 /\ UNCHANGED <<pc, idx, tries, probedReady>>
    /\ UNCHANGED <<fnvars, cancelled, allRunning, sent, validated, configFile, config, elapsed, sleeps, serverReady, lastCmd, result,
                   errKind, finalStatus, failedHosts, warnings>>

InstallOtherEtcdHosts == PhaseLoop("etcd", "master")
InstallMasterHosts == PhaseLoop("master", "worker")
InstallWorkerHosts == PhaseLoop("worker", "waitCluster")

\* ------------------------------------------------------------------------
\* Phase 6: the status monitor (lines 338-381)
\* ------------------------------------------------------------------------

MaxWaitTime == 120
CheckInterval == 10

\* Mutant of MonitorAllRunning: the monitor never ends early.
MonitorAllRunning_never(st) == FALSE

\* The early exit of line 367.
MonitorAllRunning(st) == RunningCount(st) = NumHosts

\* One iteration of the monitor loop: a status check, then the break, the
\* sleep or the end of the loop.
MonitorStatus ==
    /\ pc = "monitor"
    /\ elapsed < MaxWaitTime
    /\ \E st \in StatusMaps :
         /\ lastCmd' = [host |-> NumHosts, kind |-> "probe", ok |-> TRUE]
         /\ allRunning' = IF \A h \in Hosts : st[h] = StReady THEN "yes" ELSE "no"
         /\ IF MonitorAllRunning(st)
            THEN pc' = "final" /\ elapsed' = 0 /\ sleeps' = 0
            ELSE IF elapsed + CheckInterval < MaxWaitTime
                 THEN /\ sleeps' = sleeps + 1
                      /\ elapsed' = elapsed + CheckInterval
                      /\ pc' = pc
                 ELSE pc' = "final" /\ elapsed' = 0 /\ sleeps' = 0
    /\ UNCHANGED <<fnvars, cancelled, sent, validated, configFile, config, cpc, idx, tries, probedReady, serverReady, installCalls,
                   call, result, errKind, finalStatus, failedHosts, warnings>>

\* ------------------------------------------------------------------------
\* Phase 7: the final probe and the result (lines 383-445)
\* ------------------------------------------------------------------------

\* Mutants of FinalInstalledCount: every probed host counted, and only the
\* running hosts counted.
FinalInstalledCount_all(st) == Cardinality(DOMAIN st)
FinalInstalledCount_runningOnly(st) == Cardinality({h \in Hosts : st[h] = StReady})

\* finalInstalledCount of lines 395-407.
FinalInstalledCount(st) ==
    Cardinality({h \in Hosts : st[h] \in {StReady, StInstalledNotRunning}})

\* failedHosts of lines 393-407.
FailedHosts(st) == {h \in Hosts : st[h] = StAbsent}

\* The warnings phase 7 logs for the final status st (lines 399-403, 435-443).
FinalWarnings(st) ==
    (IF \E h \in Hosts : st[h] = StInstalledNotRunning
        THEN {"installedNotRunning"} ELSE {})
    \cup
    (IF FinalInstalledCount(st) >= NumHosts /\ RunningCount(st) < NumHosts
        THEN {"notAllRunning"} ELSE {})

VerifyFinalStatus ==
    /\ pc = "final"
    /\ \E st \in StatusMaps :
         /\ lastCmd' = [host |-> NumHosts, kind |-> "probe", ok |-> TRUE]
         /\ finalStatus' = st
         /\ failedHosts' = FailedHosts(st)
         /\ warnings' = warnings \cup FinalWarnings(st)
         /\ IF FinalInstalledCount(st) < NumHosts
            THEN ReturnError("partial")
            ELSE ReturnNil
    /\ allRunning' = "none"
    /\ UNCHANGED <<fnvars, cancelled, sent, validated, configFile, config, cpc, idx, tries, elapsed, sleeps, probedReady, serverReady,
                   installCalls, call>>

Next ==
    \/ ResolveTopology
    \/ CheckInitialStatus
    \/ SkipPathWaitForClusterReady
    \/ CreateRKE2Directories
    \/ TransferRKE2Artifacts
    \/ AddLocalFileInfos
    \/ ValidateFilesOnHost
    \/ InstallFirstServer
    \/ CheckRKE2Installed
    \/ CreateRKE2Config
    \/ ExecuteRKE2Install
    \/ StartRKE2Service
    \/ ConfigureKubectl
    \/ WaitForNodeReady
    \/ WaitForServerReady
    \/ InstallOtherEtcdHosts
    \/ InstallMasterHosts
    \/ InstallWorkerHosts
    \/ WaitForClusterReady
    \/ MonitorStatus
    \/ VerifyFinalStatus

Spec == Init /\ [][Next]_vars

\* Run under the assumption that every remote command returns: Run is
\* sequential code, so a step that can be taken is taken. The role lists are
\* the three tags the installer reads, one per host.
LiveRoleChoices == { <<"etcd">>, <<"master">>, <<"worker">> }

LiveInit ==
    /\ config \in [Hosts -> [Role : LiveRoleChoices]]
    /\ pc = "start"
    /\ RunIdle
    /\ ProbeIdle /\ DistinctIps /\ TransferIdle /\ ArtifactIdle /\ TaintIdle
    /\ ret = "none"

LiveSpec == LiveInit /\ [][Next]_vars /\ WF_vars(Next)

\* The caller asks for cancellation while Run is running. Run has no
\* parameter and RKE2Installer no field through which it could learn of it,
\* and buildSSHCommand builds commands without a context (exec.Command).
Cancel ==
    /\ pc # "done"
    /\ ~cancelled
    /\ cancelled' = TRUE
    /\ UNCHANGED <<fnvars, allRunning, sent, validated, configFile, config, pc, cpc, idx,
                   tries, elapsed, sleeps, probedReady, serverReady, installCalls, call,
                   lastCmd, result, errKind, finalStatus, failedHosts, warnings>>

CancelNext == Next \/ Cancel

CancelSpec == LiveInit /\ [][CancelNext]_vars

TypeOK ==
    /\ pc \in {"start", "probe", "skipWait", "transferDirs", "transferFiles",
               "validateLocal", "validate", "seed", "waitServer", "etcd", "master",
               "worker", "waitCluster", "monitor", "final", "done"}
    /\ result \in {"none", "ok", "error"}
    /\ (pc = "done") = (result # "none")

\* ------------------------------------------------------------------------
\* checkRKE2Status on one host, over everything its commands can see
\* ------------------------------------------------------------------------

\* Run's variables that the functions studied on their own leave alone.
runvars == <<cpc, tries, elapsed, sleeps, allRunning, probedReady, serverReady, installCalls,
             call, finalStatus, failedHosts, cancelled, sent, validated, configFile>>

\* The host whose probe is followed; the other hosts are servers, so that a
\* seed exists as it does whenever Run calls checkRKE2Status.
ProbedHost == 1

FoldInit ==
    /\ config \in { [h \in Hosts |-> [Role |-> IF h = ProbedHost THEN r ELSE <<"master">>]] :
                        r \in RoleChoices }
    /\ pc = "checkStatus"
    /\ RunIdle
    /\ sig \in ProbeSignals
    /\ status = "unknown"
    /\ results = NoResults
    /\ DistinctIps /\ TransferIdle /\ ArtifactIdle /\ TaintIdle
    /\ ret = "none"

\* The iteration of the loop of checkRKE2Status on ProbedHost.
CheckRKE2StatusOfHost ==
    /\ pc = "checkStatus"
    /\ status' = HostStatus(ProbedHost, sig)
    /\ results' = PutResult(results, ips[ProbedHost], status')
    /\ pc' = "statusChecked"
    /\ UNCHANGED <<config, runvars, idx, lastCmd, result, errKind, warnings, sig, ips,
                   localInfo, remoteInfo, finalInfo, cmds, ret, artifacts, taints>>

FoldNext == CheckRKE2StatusOfHost

FoldSpec == FoldInit /\ [][FoldNext]_vars

\* ------------------------------------------------------------------------
\* checkRKE2Status over all hosts: the map it returns
\* ------------------------------------------------------------------------

\* The address lists of the model: distinct addresses, or host d declared
\* with the address of host 1 (validateConfig accepts a repeated address).
IpChoices == { [h \in Hosts |-> IF h = d THEN 1 ELSE h] : d \in Hosts }

\* The last command an iteration of checkRKE2Status issues for host h and
\* whether it returned without error: the installed check (exit status 1 is
\* the normal "not installed" answer), the is-active query on the host, or
\* the node query on the seed.
LastProbeCmd(h, s) ==
    IF checkRKE2Installed(s) = "error"
    THEN [host |-> ips[h], kind |-> "checkInstalled", ok |-> FALSE]
    ELSE IF checkRKE2Installed(s) = "notInstalled"
    THEN [host |-> ips[h], kind |-> "checkInstalled", ok |-> TRUE]
    ELSE IF ~ServiceIsActive(RolesOf(h), s)
    THEN [host |-> ips[h], kind |-> "isActive", ok |-> FALSE]
    ELSE [host |-> ips[getFirstEtcdHost], kind |-> "nodeReady", ok |-> s.kube # "error"]

ProbeInit ==
    /\ config \in { c \in [Hosts -> [Role : {<<"etcd">>, <<"worker">>}]] :
                        \E h \in Hosts : c[h].Role = <<"etcd">> }
    /\ pc = "checkStatus"
    /\ RunIdle
    /\ ProbeIdle
    /\ ips \in IpChoices
    /\ TransferIdle /\ ArtifactIdle /\ TaintIdle
    /\ ret = "none"

\* One iteration of the loop of checkRKE2Status, on host idx; after the last
\* one the map is returned.
CheckRKE2Status ==
    /\ pc = "checkStatus"
    /\ \E s \in ProbeSignals :
         /\ status' = HostStatus(HostList[idx], s)
         /\ results' = PutResult(results, ips[HostList[idx]], status')
         /\ lastCmd' = LastProbeCmd(HostList[idx], s)
    /\ IF idx < NumHosts
       THEN idx' = idx + 1 /\ pc' = pc
       ELSE idx' = 1 /\ pc' = "statusChecked"
    /\ UNCHANGED <<config, runvars, result, errKind, warnings, sig, ips,
                   localInfo, remoteInfo, finalInfo, cmds, ret, artifacts, taints>>

ProbeNext == CheckRKE2Status

ProbeSpec == ProbeInit /\ [][ProbeNext]_vars

\* ------------------------------------------------------------------------
\* transferFileWithProgress: one file to one host (lines 891-948)
\* ------------------------------------------------------------------------

\* What getLocalFileInfo and getRemoteFileInfo can return: a FileInfo, or an
\* error (for the remote file: the command failed, the file does not exist,
\* the output is incomplete or holds no md5).
InfoResults == FileInfos \cup {ErrInfo}

\* Mutant of RemoteIsComplete: the remote copy is never taken as complete.
RemoteIsComplete_never(remote, local) == FALSE

\* The test of line 914: the remote file exists and is complete.
RemoteIsComplete(remote, local) == remote # ErrInfo /\ SameFile(remote, local)

\* Mutant of TransferVerified: only the size is compared after the transfer.
TransferVerified_sizeOnly(final, local) == final # ErrInfo /\ final.size = local.size

\* The tests of lines 935-942 on the file info read after the transfer.
TransferVerified(final, local) == final # ErrInfo /\ SameFile(final, local)

TransferInit ==
    /\ config \in {[h \in Hosts |-> [Role |-> <<"etcd">>]]}
    /\ pc = "testLocal"
    /\ RunIdle
    /\ ProbeIdle /\ DistinctIps /\ TransferIdle /\ ArtifactIdle /\ TaintIdle
    /\ ret = "none"

\* transferFileWithProgress returns r.
TransferReturns(r) == pc' = "returned" /\ ret' = r

\* Line 897: test -f localPath.
TestLocalFile ==
    /\ pc = "testLocal"
    /\ \E exists \in BOOLEAN :
         IF exists THEN pc' = "localInfo" /\ ret' = ret
         ELSE TransferReturns("errLocalMissing")
    /\ UNCHANGED <<config, runvars, idx, lastCmd, result, errKind, warnings, sig, status,
                   ips, results, localInfo, remoteInfo, finalInfo, cmds, artifacts, taints>>

\* Lines 902-905: getLocalFileInfo.
GetLocalFileInfo ==
    /\ pc = "localInfo"
    /\ \E r \in InfoResults :
         /\ localInfo' = r
         /\ IF r = ErrInfo THEN TransferReturns("errLocalInfo")
            ELSE pc' = "remoteInfo" /\ ret' = ret
    /\ UNCHANGED <<config, runvars, idx, lastCmd, result, errKind, warnings, sig, status,
                   ips, results, remoteInfo, finalInfo, cmds, artifacts, taints>>

\* Lines 913-919: getRemoteFileInfo and the decision to skip the transfer.
GetRemoteFileInfo ==
    /\ pc = "remoteInfo"
    /\ \E r \in InfoResults :
         /\ remoteInfo' = r
         /\ cmds' = Append(cmds, "probe")
         /\ IF RemoteIsComplete(r, localInfo) THEN TransferReturns("nil")
            ELSE pc' = "rsync" /\ ret' = ret
    /\ UNCHANGED <<config, runvars, idx, lastCmd, result, errKind, warnings, sig, status,
                   ips, results, localInfo, finalInfo, artifacts, taints>>

\* transferFileWithScp, lines 957-959: transferFileWithRsync. rsync is not run
\* when it (or sshpass, for a password host) is not found locally.
TransferFileWithRsync ==
    /\ pc = "rsync"
    /\ \E o \in {"unavailable", "ok", "failed"} :
         /\ cmds' = IF o = "unavailable" THEN cmds ELSE Append(cmds, "rsync")
         /\ pc' = IF o = "ok" THEN "verify" ELSE "scp"
    /\ UNCHANGED <<config, runvars, idx, lastCmd, result, errKind, warnings, sig, status,
                   ips, results, localInfo, remoteInfo, finalInfo, ret, artifacts, taints>>

\* transferFileWithScp, lines 961-974: the scp fallback; its error is returned
\* by transferFileWithProgress (lines 929-931).
TransferFileWithScp ==
    /\ pc = "scp"
    /\ cmds' = Append(cmds, "scp")
    /\ \E ok \in BOOLEAN :
         IF ok THEN pc' = "verify" /\ ret' = ret
         ELSE TransferReturns("errTransfer")
    /\ UNCHANGED <<config, runvars, idx, lastCmd, result, errKind, warnings, sig, status,
                   ips, results, localInfo, remoteInfo, finalInfo, artifacts, taints>>

\* Lines 934-947: the file info after the transfer and its comparison.
VerifyTransferredFile ==
    /\ pc = "verify"
    /\ \E r \in InfoResults :
         /\ finalInfo' = r
         /\ cmds' = Append(cmds, "probe")
         /\ IF TransferVerified(r, localInfo) THEN TransferReturns("nil")
            ELSE IF r = ErrInfo THEN TransferReturns("errVerify")
            ELSE TransferReturns("errMismatch")
    /\ UNCHANGED <<config, runvars, idx, lastCmd, result, errKind, warnings, sig, status,
                   ips, results, localInfo, remoteInfo, artifacts, taints>>

TransferNext ==
    \/ TestLocalFile
    \/ GetLocalFileInfo
    \/ GetRemoteFileInfo
    \/ TransferFileWithRsync
    \/ TransferFileWithScp
    \/ VerifyTransferredFile

TransferSpec == TransferInit /\ [][TransferNext]_vars

\* ------------------------------------------------------------------------
\* Artifact distribution and validation on one host
\* (transferRKE2Artifacts, validatePackageIntegrityOnAllNodes)
\* ------------------------------------------------------------------------

\* The artifact lists of lines 681-687 and 2158-2164: five entries, the second
\* and the third with a glob pattern as localPath.
NumArtifacts == 5
IsWildcard(i) == i \in {2, 3}

\* The lists the loops are followed on: the field required of every entry is
\* free (the lists of the code have required = true throughout).
ArtifactLists == [1..NumArtifacts -> [required : BOOLEAN]]

\* What transferArtifact returns for artifact i: nil, an error of
\* transferFileWithProgress, or for a glob pattern "no file matches".
TransferArtifactResults(i) ==
    {"nil", "errLocalMissing", "errLocalInfo", "errTransfer", "errVerify", "errMismatch"}
    \cup (IF IsWildcard(i) THEN {"errNoMatch"} ELSE {})

\* What the validation of a required artifact i on the host ends with
\* (validateFilesOnHost, validateWildcardFiles).
ValidateArtifactResults(i) ==
    {"nil", "errNoLocalInfo", "errProbe", "errMismatch"}
    \cup (IF IsWildcard(i) THEN {"errNoMatch"} ELSE {})

\* Mutant of ArtifactFailureAborts: every failed transfer is returned.
ArtifactFailureAborts_always(artifact) == TRUE

\* Lines 703-710: the error of transferArtifact is returned for a required
\* artifact and logged for an optional one.
ArtifactFailureAborts(artifact) == artifact.required

ArtifactInit ==
    /\ config \in {[h \in Hosts |-> [Role |-> <<"etcd">>]]}
    /\ pc = "artifactDirs"
    /\ RunIdle
    /\ ProbeIdle /\ DistinctIps /\ TransferIdle /\ TaintIdle
    /\ artifacts \in ArtifactLists
    /\ ret = "none"

\* Lines 689-699: the remote directories of the artifacts. The error goes up
\* through transferOfflineResourcesToAllNodes to Run, which returns it.
CreateArtifactDirs ==
    /\ pc = "artifactDirs"
    /\ \E ok \in BOOLEAN :
         IF ok THEN pc' = "artifactLoop" /\ UNCHANGED <<result, errKind>>
         ELSE ReturnError("transfer")
    /\ UNCHANGED <<config, runvars, idx, lastCmd, warnings, sig, status, ips, results,
                   localInfo, remoteInfo, finalInfo, cmds, ret, artifacts, taints>>

\* Lines 702-711: one iteration of the loop over the artifacts.
TransferArtifact ==
    /\ pc = "artifactLoop"
    /\ \E r \in TransferArtifactResults(idx) :
         /\ ret' = r
         /\ IF r # "nil" /\ ArtifactFailureAborts(artifacts[idx])
            THEN ReturnError("transfer") /\ UNCHANGED <<idx, warnings>>
            ELSE /\ warnings' = IF r # "nil" THEN warnings \cup {"optionalArtifact"}
                                ELSE warnings
                 /\ UNCHANGED <<result, errKind>>
                 /\ IF idx < NumArtifacts
                    THEN idx' = idx + 1 /\ pc' = pc
                    ELSE idx' = 1 /\ pc' = "chmod"
    /\ UNCHANGED <<config, runvars, lastCmd, sig, status, ips, results,
                   localInfo, remoteInfo, finalInfo, cmds, artifacts, taints>>

\* Lines 713-718: chmod +x on the install script.
SetInstallScriptMode ==
    /\ pc = "chmod"
    /\ \E ok \in BOOLEAN :
         IF ok THEN pc' = "localInfos" /\ UNCHANGED <<result, errKind>>
         ELSE ReturnError("transfer")
    /\ UNCHANGED <<config, runvars, idx, lastCmd, warnings, sig, status, ips, results,
                   localInfo, remoteInfo, finalInfo, cmds, ret, artifacts, taints>>

\* Lines 2166-2174: addLocalFileInfos for the required files; it fails when a
\* required file is missing locally.
AddRequiredFileInfos ==
    /\ pc = "localInfos"
    /\ \E ok \in BOOLEAN :
         IF ok \/ \A i \in 1..NumArtifacts : ~artifacts[i].required
         THEN pc' = "validateLoop" /\ UNCHANGED <<result, errKind>>
         ELSE ReturnError("validate")
    /\ UNCHANGED <<config, runvars, idx, lastCmd, warnings, sig, status, ips, results,
                   localInfo, remoteInfo, finalInfo, cmds, ret, artifacts, taints>>

\* validateFilesOnHost, lines 811-843: one iteration of the loop over the
\* artifacts; an optional artifact is skipped.
ValidateArtifact ==
    /\ pc = "validateLoop"
    /\ \E r \in ValidateArtifactResults(idx) :
         /\ ret' = IF artifacts[idx].required THEN r ELSE "skipped"
         /\ IF artifacts[idx].required /\ r # "nil"
            THEN ReturnError("validate") /\ idx' = idx
            ELSE /\ UNCHANGED <<result, errKind>>
                 /\ IF idx < NumArtifacts
                    THEN idx' = idx + 1 /\ pc' = pc
                    ELSE idx' = 1 /\ pc' = "distributed"
    /\ UNCHANGED <<config, runvars, lastCmd, warnings, sig, status, ips, results,
                   localInfo, remoteInfo, finalInfo, cmds, artifacts, taints>>

ArtifactNext ==
    \/ CreateArtifactDirs
    \/ TransferArtifact
    \/ SetInstallScriptMode
    \/ AddRequiredFileInfos
    \/ ValidateArtifact

ArtifactSpec == ArtifactInit /\ [][ArtifactNext]_vars

\* ------------------------------------------------------------------------
\* getRecommendedTaints on every host of a configuration
\* ------------------------------------------------------------------------

TaintInit ==
    /\ config \in [Hosts -> [Role : RoleChoices, NodeTaint : TaintChoices]]
    /\ pc = "taints"
    /\ RunIdle
    /\ ProbeIdle /\ DistinctIps /\ TransferIdle /\ ArtifactIdle /\ TaintIdle
    /\ ret = "none"

\* The call getRecommendedTaints(host) of getNodeConfigSection (line 1171),
\* for the hosts in declaration order.
GetRecommendedTaints ==
    /\ pc = "taints"
    /\ taints' = [taints EXCEPT ![HostList[idx]] = getRecommendedTaints(HostList[idx])]
    /\ IF idx < NumHosts
       THEN idx' = idx + 1 /\ pc' = pc
       ELSE idx' = 1 /\ pc' = "taintsDone"
    /\ UNCHANGED <<config, runvars, lastCmd, result, errKind, warnings, sig, status, ips,
                   results, localInfo, remoteInfo, finalInfo, cmds, ret, artifacts>>

TaintNext == GetRecommendedTaints

TaintSpec == TaintInit /\ [][TaintNext]_vars

\* ------------------------------------------------------------------------
\* hasWorkerNodes and getAgentHosts on configurations with mixed role lists
\* ------------------------------------------------------------------------

\* Role lists that put the tag worker next to the other tags.
PoolRoleChoices ==
    { <<"etcd">>, <<"master">>, <<"worker">>, <<"control">>,
      <<"etcd", "master", "worker">>, <<"worker", " Master ">>,
      <<"worker", "control">> }

\* Hosts without node_taint, so getRecommendedTaints reaches hasWorkerNodes.
PoolInit ==
    /\ config \in [Hosts -> [Role : PoolRoleChoices, NodeTaint : {<<>>}]]
    /\ pc = "taints"
    /\ RunIdle
    /\ ProbeIdle /\ DistinctIps /\ TransferIdle /\ ArtifactIdle /\ TaintIdle
    /\ ret = "none"

PoolSpec == PoolInit /\ [][TaintNext]_vars

\* ------------------------------------------------------------------------
\* validateConfig of the config package (config.go, lines 79-156)
\* ------------------------------------------------------------------------

\* A host entry that passes every test of validateConfig; the address 0 and
\* the empty string stand for a field left out of the file.
ValidHost ==
    [IP |-> 1, User |-> "root", Role |-> <<"etcd">>, RbdRole |-> <<>>,
     Password |-> "secret", SSHKey |-> ""]

\* The host entries of the model: ValidHost with one part changed.
ValidationHosts ==
    {ValidHost, [ValidHost EXCEPT !.IP = 0], [ValidHost EXCEPT !.User = ""],
     [ValidHost EXCEPT !.Password = ""],
     [ValidHost EXCEPT !.Password = "", !.SSHKey = "/root/.ssh/id_rsa"]}
    \cup { [ValidHost EXCEPT !.Role = r] :
              r \in { <<>>, <<" ">>, <<"bogus">>, <<"etcd", "bogus">>,
                      <<" ", "worker">>, <<"control">> } }
    \cup { [ValidHost EXCEPT !.RbdRole = r] : r \in { <<"rbd-gateway">>, <<"bogus">> } }

\* config.Hosts as parsed from the file: any number of entries up to NumHosts.
ValidationConfigs == UNION { [1..n -> ValidationHosts] : n \in 0..NumHosts }

\* validateRbdRoles: TRUE when the rbd_role list is accepted.
validateRbdRoles(rbdRoles) ==
    \A i \in 1..Len(rbdRoles) :
        \/ TrimLower(rbdRoles[i]) = ""
        \/ TrimLower(rbdRoles[i]) \in {"rbd-gateway", "rbd-chaos"}

\* The tests of the loop body of validateConfig on one host, in order: the
\* error it returns, "nil" when it returns none.
validateHost(host) ==
    IF host.IP = 0 THEN "ip-required"
    ELSE IF host.User = "" THEN "user-required"
    ELSE IF ~validateRoles(host.Role) THEN "invalid-role"
    ELSE IF ~validateRbdRoles(host.RbdRole) THEN "invalid-rbd-role"
    ELSE IF host.Password = "" /\ host.SSHKey = "" THEN "no-credentials"
    ELSE "nil"

ValidateInit ==
    /\ config \in ValidationConfigs
    /\ pc = "validateConfig"
    /\ RunIdle
    /\ ProbeIdle /\ DistinctIps /\ TransferIdle /\ ArtifactIdle /\ TaintIdle
    /\ ret = "none"

ValidateUnchanged ==
    UNCHANGED <<config, runvars, lastCmd, result, errKind, warnings, sig, status, ips,
                results, localInfo, remoteInfo, finalInfo, cmds, artifacts, taints>>

\* The test of lines 131-133.
ValidateHostCount ==
    /\ pc = "validateConfig"
    /\ IF Len(config) = 0
       THEN pc' = "validated" /\ ret' = "no-hosts"
       ELSE pc' = "validateHosts" /\ ret' = ret
    /\ idx' = 1
    /\ ValidateUnchanged

\* One iteration of the loop of lines 135-153, on host idx.
ValidateHost ==
    /\ pc = "validateHosts"
    /\ LET err == validateHost(config[idx])
       IN  IF err # "nil"
           THEN pc' = "validated" /\ ret' = err /\ idx' = 1
           ELSE IF idx < Len(config)
                THEN pc' = pc /\ ret' = ret /\ idx' = idx + 1
                ELSE pc' = "validated" /\ ret' = "nil" /\ idx' = 1
    /\ ValidateUnchanged

ValidateNext == ValidateHostCount \/ ValidateHost

ValidateSpec == ValidateInit /\ [][ValidateNext]_vars

\* ------------------------------------------------------------------------
\* The node section of the config file and the node query of the probe
\* (getNodeConfigSection, getNodeName, checkKubernetesNodeReady)
\* ------------------------------------------------------------------------

\* Addresses and node names are numbers: host h has the address ips[h], 0 is
\* the empty string, InternalAddress(h) is an address of another network and
\* CustomName(h) a name that is no address.
InternalAddress(h) == 10 + h
CustomName(h) == 100 + h

\* The hosts of the model: internal_ip left out, equal to ip or different
\* from it; node_name left out or set. Some host is a server, as in every
\* configuration Run goes on with (lines 95-97).
NodeConfigs ==
    { [h \in Hosts |->
          [Role |-> c[h].Role, NodeTaint |-> <<>>,
           InternalIP |-> CASE c[h].internal = "absent" -> 0
                            [] c[h].internal = "same" -> h
                            [] c[h].internal = "other" -> InternalAddress(h),
           NodeName |-> IF c[h].named THEN CustomName(h) ELSE 0]] :
        c \in { d \in [Hosts -> [Role : {<<"etcd">>, <<"worker">>},
                                 internal : {"absent", "same", "other"},
                                 named : BOOLEAN]] :
                     \E h \in Hosts : d[h].Role = <<"etcd">> } }

getNodeName(h) == IF config[h].NodeName # 0 THEN config[h].NodeName ELSE ips[h]

\* The lines getNodeConfigSection writes for host h; nodeExternalIp is 0
\* when the line node-external-ip is not written.
getNodeConfigSection(h) ==
    [host |-> h,
     nodeName |-> getNodeName(h),
     nodeIp |-> config[h].InternalIP,
     nodeExternalIp |-> IF ips[h] # config[h].InternalIP THEN ips[h] ELSE 0,
     nodeTaint |-> getRecommendedTaints(h)]

\* The node name in the kubectl command of checkKubernetesNodeReady (line 1661).
NodeQueryName(h) == ips[h]

\* "kubectl get node <name> -o jsonpath=... || echo 'NotFound'" on a cluster
\* in which the node of the probed host is registered as s.nodeName with the
\* Ready condition s.nodeCondition.
kubectlGetNode(name, s) == IF name = s.nodeName THEN s.nodeCondition ELSE "NotFound"

\* What the probe of host h sees once the host is installed with the node
\* section nodeSection: the service of its role active or not, and its node
\* registered under the node-name of the section, Ready or not.
NodeSignals(h, nodeSection) ==
    { [serverUnit |-> TRUE, agentUnit |-> TRUE, binary |-> TRUE, dirs |-> TRUE,
       serverActive |-> a, agentActive |-> a, checkFails |-> FALSE,
       activeFails |-> FALSE, nodeName |-> nodeSection.nodeName, nodeCondition |-> c,
       kube |-> kubectlGetNode(NodeQueryName(h),
                               [nodeName |-> nodeSection.nodeName, nodeCondition |-> c])] :
        a \in BOOLEAN, c \in {"True", "False"} }

NodeInit ==
    /\ config \in NodeConfigs
    /\ pc = "nodeSection"
    /\ RunIdle
    /\ ProbeIdle /\ DistinctIps /\ TransferIdle /\ ArtifactIdle /\ TaintIdle
    /\ ret = "none"

\* createRKE2Config on host idx, line 1264: the node section of its config.
GetNodeConfigSection ==
    /\ pc = "nodeSection"
    /\ ret' = getNodeConfigSection(HostList[idx])
    /\ pc' = "nodeProbe"
    /\ UNCHANGED <<config, runvars, idx, lastCmd, result, errKind, warnings, sig, status, ips,
                   results, localInfo, remoteInfo, finalInfo, cmds, artifacts, taints>>

\* The iteration of checkRKE2Status on host idx once it is installed; then
\* the next host.
CheckNodeStatus ==
    /\ pc = "nodeProbe"
    /\ \E s \in NodeSignals(HostList[idx], ret) :
         /\ sig' = s
         /\ status' = HostStatus(HostList[idx], s)
    /\ IF idx < NumHosts
       THEN idx' = idx + 1 /\ pc' = "nodeSection"
       ELSE idx' = 1 /\ pc' = "nodesDone"
    /\ UNCHANGED <<config, runvars, lastCmd, result, errKind, warnings, ips, results,
                   localInfo, remoteInfo, finalInfo, cmds, ret, artifacts, taints>>

NodeNext == GetNodeConfigSection \/ CheckNodeStatus

NodeSpec == NodeInit /\ [][NodeNext]_vars

\* ------------------------------------------------------------------------
\* waitForClusterReady: the check command and the loop (lines 1547-1583)
\* ------------------------------------------------------------------------

\* The STATUS column of a line of "kubectl get nodes", as its characters.
ReadyText == <<"R", "e", "a", "d", "y">>
NotReadyText == <<"N", "o", "t">> \o ReadyText

\* grep: the line holds the pattern somewhere.
LineMatches(pattern, line) ==
    \E i \in 0..(Len(line) - Len(pattern)) :
        SubSeq(line, i + 1, i + Len(pattern)) = pattern

\* What the check command finds on the seed: kubectl works or not, and the
\* registered nodes with their status (no more nodes than hosts).
ClusterStates ==
    [kubectlFails : BOOLEAN,
     nodes : UNION { [1..n -> {ReadyText, NotReadyText}] : n \in 0..NumHosts }]

\* ready_nodes=$(kubectl get nodes | grep -c "Ready"); the header line
\* "NAME STATUS ROLES AGE VERSION" does not hold the pattern.
readyNodes(c) ==
    Cardinality({i \in 1..Len(c.nodes) : LineMatches(ReadyText, c.nodes[i])})

\* total_nodes=$(kubectl get nodes --no-headers | wc -l)
totalNodes(c) == Len(c.nodes)

\* Exit status of the check command of waitForClusterReady.
clusterCheckExit(c) ==
    IF ~c.kubectlFails /\ readyNodes(c) = totalNodes(c) /\ totalNodes(c) > 0
    THEN 0
    ELSE 1

ClusterInit ==
    /\ config = [h \in Hosts |-> [Role |-> <<"etcd">>]]
    /\ pc = "clusterWait"
    /\ RunIdle
    /\ ProbeIdle /\ DistinctIps /\ TransferIdle /\ ArtifactIdle /\ TaintIdle
    /\ ret = "none"

\* One iteration of the loop of waitForClusterReady: the check command on
\* the cluster as it is at that moment, then the return or the next attempt.
ProbeCluster ==
    /\ pc = "clusterWait"
    /\ tries < ClusterReadyAttempts
    /\ \E c \in ClusterStates :
         /\ sig' = c
         /\ lastCmd' = ClusterProbe(clusterCheckExit(c) = 0)
         /\ IF clusterCheckExit(c) = 0
            THEN pc' = "clusterDone" /\ ret' = "nil" /\ tries' = tries
            ELSE /\ tries' = tries + 1
                 /\ IF tries + 1 < ClusterReadyAttempts
                    THEN pc' = pc /\ ret' = ret
                    ELSE pc' = "clusterDone" /\ ret' = "timeout"
    /\ UNCHANGED <<config, cpc, idx, elapsed, sleeps, allRunning, probedReady, serverReady,
                   installCalls, call, result, errKind, finalStatus, failedHosts, warnings,
                   cancelled, sent, validated, configFile, status, ips, results, localInfo,
                   remoteInfo, finalInfo, cmds, artifacts, taints>>

ClusterNext == ProbeCluster

ClusterSpec == ClusterInit /\ [][ClusterNext]_vars

\* ------------------------------------------------------------------------
\* Vocabulary of the properties
\* ------------------------------------------------------------------------

Seed == getFirstEtcdHost
HasEtcdTag(h) == hasRole(RolesOf(h), "etcd")
HasMasterTag(h) == hasRole(RolesOf(h), "master")
HasWorkerTag(h) == hasRole(RolesOf(h), "worker")
IsControlPlaneOnly(h) == HasMasterTag(h) /\ ~HasEtcdTag(h)
IsPureWorker(h) == HasWorkerTag(h) /\ ~HasMasterTag(h) /\ ~HasEtcdTag(h)

\* Number of install calls made on host h so far.
CallCount(h) == Cardinality({i \in 1..Len(installCalls) : installCalls[i] = h})

\* The rollout phases (seed, etcd, master, worker) have all run to their end.
RolloutCompleted ==
    \/ pc \in {"waitCluster", "monitor", "final"}
    \/ pc = "done" /\ errKind \in {"waitCluster", "partial"}
    \/ pc = "done" /\ result = "ok" /\ probedReady # Hosts

\* Run has returned after the final probe of phase 7.
FinalProbed == pc = "done" /\ finalStatus # NoStatus

\* The remote commands that change a host.
SideEffectKinds == {"mkdir", "transfer", "config", "script", "start"}

\* The steps of an install call that follow the installed check.
InstallStepKinds == {"config", "script", "start", "kubectl", "waitNode"}

\* ------------------------------------------------------------------------
\* C1
\* ------------------------------------------------------------------------

\* The phase a host belongs to in the order seed, other etcd hosts, other
\* control-plane-only hosts, pure workers.
PhaseRank(h) ==
    IF h = Seed THEN 0
    ELSE IF HasEtcdTag(h) THEN 1
    ELSE IF IsControlPlaneOnly(h) THEN 2
    ELSE 3

\* C1: the install calls occur in the order seed, then every other etcd host,
\* then every other control-plane-only host, then every pure worker: no install
\* call on a host of a later phase precedes one on a host of an earlier phase.
C1_InstallOrder ==
    \A i, j \in 1..Len(installCalls) :
        i < j => PhaseRank(installCalls[i]) <= PhaseRank(installCalls[j])

\* ------------------------------------------------------------------------
\* C2
\* ------------------------------------------------------------------------

\* C2: an install call on a non-seed host is made only after waitForServerReady
\* has succeeded on the seed; when all 60 attempts of waitForServerReady fail,
\* Run returns an error with the seed's install call as the only install call
\* and the readiness probe as the last remote command (no later phase runs).
C2_SeedReadyGate ==
    /\ \A i \in 1..Len(installCalls) : installCalls[i] # Seed => serverReady
    /\ Len(installCalls) >= 2 => serverReady
    /\ pc \in {"etcd", "master", "worker", "waitCluster", "monitor", "final"}
          => serverReady
    /\ (lastCmd.kind = "serverReady" /\ tries = ServerReadyAttempts) =>
          /\ pc = "done" /\ result = "error" /\ errKind = "waitServer"
          /\ ~serverReady
          /\ installCalls = <<Seed>>
          /\ finalStatus = NoStatus
    /\ errKind = "waitServer" =>
          /\ lastCmd = [host |-> Seed, kind |-> "serverReady", ok |-> FALSE]
          /\ tries = ServerReadyAttempts

C2_Witness ==
    /\ pc = "done" /\ errKind = "waitServer" /\ tries = ServerReadyAttempts
    /\ \E h \in Hosts : h # Seed /\ (HasEtcdTag(h) \/ IsPureWorker(h))

\* ------------------------------------------------------------------------
\* C3
\* ------------------------------------------------------------------------

\* C3: once the rollout phases have completed, every host with a server or
\* worker role has received exactly one install call, and for H1(etcd+master),
\* H2(master), H3(worker) the install calls are exactly H1, H2, H3.
C3_ExactlyOneInstallCall ==
    RolloutCompleted =>
        /\ \A h \in Hosts :
              (HasEtcdTag(h) \/ HasMasterTag(h) \/ HasWorkerTag(h)) => CallCount(h) = 1
        /\ ( /\ NumHosts >= 3
             /\ HasEtcdTag(1) /\ HasMasterTag(1)
             /\ IsControlPlaneOnly(2)
             /\ IsPureWorker(3) )
           => SubSeq(installCalls, 1, 3) = <<1, 2, 3>>

\* ------------------------------------------------------------------------
\* C4
\* ------------------------------------------------------------------------

C5_AnyFailureAborts ==
    (lastCmd.kind \in {"config", "script", "start"} /\ ~lastCmd.ok)
        => (pc = "done" /\ result = "error")

\* C5 amended: a failed step of an install call makes Run return an error at
\* once, with no further install call, except the service start of a host the
\* call's own check found installed, whose failure is only logged; and once Run
\* has returned it takes no further step.
C5_FailureAbortsUnlessRestart ==
    /\ [][ (cpc \in InstallStepKinds /\ lastCmd'.kind = cpc /\ ~lastCmd'.ok) =>
              IF call.check = "installed" /\ cpc = "start"
              THEN pc' # "done" /\ result' = "none"
              ELSE /\ pc' = "done" /\ result' = "error"
                   /\ errKind' = InstallErrKind(pc)
                   /\ installCalls' = installCalls ]_vars
    /\ [][pc # "done"]_vars

C5_Witness ==
    /\ pc = "done" /\ result = "error" /\ errKind = "etcdInstall"
    /\ lastCmd.kind = "script" /\ ~lastCmd.ok
    /\ \E h \in Hosts : IsPureWorker(h) /\ CallCount(h) = 0

\* ------------------------------------------------------------------------
\* C6
\* ------------------------------------------------------------------------

\* C6: when the final probe finds some host running-not-ready and every host
\* ready, installed-not-running or running-not-ready (none absent), Run
\* returns nil.
C6_RunningNotReadyNonFatal ==
    ( /\ FinalProbed
      /\ \E h \in Hosts : finalStatus[h] = StRunningNotReady
      /\ \A h \in Hosts :
            finalStatus[h] \in {StReady, StInstalledNotRunning, StRunningNotReady} )
        => result = "ok"

\* ------------------------------------------------------------------------
\* C7
\* ------------------------------------------------------------------------

\* C7 as stated: Run never returns an error because waitForClusterReady used
\* up its attempts.
C7_ClusterTimeoutNonFatal == errKind # "waitCluster"

\* C7 amended: when waitForClusterReady uses up its attempts after the worker
\* phase, Run returns an error without a final probe; on the all-ready path
\* the same failure is logged as a warning and Run returns nil.
C7_ClusterTimeoutFatalAfterRollout ==
    (lastCmd.kind = "clusterReady" /\ tries = ClusterReadyAttempts) =>
        /\ pc = "done"
        /\ IF probedReady = Hosts
           THEN result = "ok" /\ "clusterNotReady" \in warnings
           ELSE /\ result = "error" /\ errKind = "waitCluster"
                /\ finalStatus = NoStatus
                /\ RolloutCompleted

C7_Witness ==
    /\ pc = "done" /\ errKind = "waitCluster"
    /\ lastCmd.kind = "clusterReady" /\ tries = ClusterReadyAttempts
    /\ Len(installCalls) >= 2

\* ------------------------------------------------------------------------
\* C8
\* ------------------------------------------------------------------------

C10_ReadyHostUntouched ==
    (probedReady # Hosts /\ lastCmd.host \in probedReady /\ lastCmd.kind # "probe")
        => lastCmd.kind \notin SideEffectKinds

\* C10 amended: a host probed ready is not skipped by the rollout. Directory
\* creation and artifact transfer go to every host in declaration order, and
\* every host of a server or worker phase gets its install call; inside an
\* install call whose own check finds the host installed, the only commands
\* issued are the service start and, on the seed, the kubectl configuration and
\* the node wait: no config write and no install script.
C10_InstalledHostOnlyRestarted ==
    /\ [][ call.check = "installed" =>
              /\ lastCmd'.host = call.host
              /\ lastCmd'.kind \in {"start", "kubectl", "waitNode"}
              /\ lastCmd'.kind \in {"kubectl", "waitNode"} => call.first ]_vars
    /\ [](pc = "transferFiles" =>
              lastCmd = [host |-> idx, kind |-> "mkdir", ok |-> TRUE])
    /\ []((pc = "transferDirs" /\ idx > 1) =>
              lastCmd = [host |-> idx - 1, kind |-> "transfer", ok |-> TRUE])
    /\ [](pc = "validateLocal" =>
              lastCmd = [host |-> NumHosts, kind |-> "transfer", ok |-> TRUE])
    /\ [](RolloutCompleted =>
              \A h \in Hosts :
                  (HasEtcdTag(h) \/ HasMasterTag(h) \/ IsPureWorker(h)) => CallCount(h) >= 1)

C10_Witness ==
    /\ Seed \in probedReady /\ probedReady # Hosts
    /\ call.host = Seed /\ call.check = "installed"
    /\ lastCmd = [host |-> Seed, kind |-> "start", ok |-> TRUE]
    /\ cpc = "kubectl"

\* ------------------------------------------------------------------------
\* C11
\* ------------------------------------------------------------------------

\* C11: inside an install call, a host the call's check finds installed gets
\* the service start and neither config generation nor install script; a
\* host the check finds not installed gets config generation, then the
\* install script, then the service start, in that order, each on the host of
\* the call and each only after the previous one succeeded: a failed step
\* ends the call and Run with an error.
C11_RestartOrFullInstallInOrder ==
    /\ [][ cpc = "check" =>
              /\ lastCmd'.kind = "checkInstalled" /\ lastCmd'.host = call.host
              /\ call'.check = "installed" => cpc' = "start"
              /\ call'.check = "notInstalled" => cpc' = "config" ]_vars
    /\ [][ call.check = "installed" =>
              /\ lastCmd'.kind \notin {"config", "script"}
              /\ cpc = "start" => lastCmd'.kind = "start" /\ lastCmd'.host = call.host
              /\ configFile' = NoConfig ]_vars
    /\ [][ (call.check = "notInstalled" /\ cpc \in {"config", "script", "start"}) =>
              /\ lastCmd'.kind = cpc /\ lastCmd'.host = call.host
              /\ IF lastCmd'.ok
                 THEN cpc' = CASE cpc = "config" -> "script"
                               [] cpc = "script" -> "start"
                               [] cpc = "start" -> IF call.first THEN "kubectl" ELSE "none"
                 ELSE cpc' = "none" /\ pc' = "done" /\ result' = "error" ]_vars

C11_Witness ==
    /\ call.check = "notInstalled" /\ call.first
    /\ configFile.kind = "first-master"
    /\ lastCmd = [host |-> call.host, kind |-> "start", ok |-> TRUE]
    /\ cpc = "kubectl"

\* ------------------------------------------------------------------------
\* C12
\* ------------------------------------------------------------------------

\* C12: when no probe command fails, the status checkRKE2Status assigns is the
\* fold of (a) the unit file of the host's own role, (b) the binary, (c) the
\* directories and (d) the service of the host's own role being active:
\* (d) gives running-not-ready, ready when the seed reports the node Ready;
\* otherwise (a), (b) and (c) together give installed-not-running; otherwise
\* absent.
C12_StatusIsOwnRoleFold ==
    (pc = "statusChecked" /\ ~sig.checkFails /\ ~sig.activeFails /\ sig.kube # "error") =>
        LET server == IsServer(RolesOf(ProbedHost))
            a == IF server THEN sig.serverUnit ELSE sig.agentUnit
            d == IF server THEN sig.serverActive ELSE sig.agentActive
        IN  status = IF d
                     THEN (IF sig.kube = "True" THEN StReady ELSE StRunningNotReady)
                     ELSE IF a /\ sig.binary /\ sig.dirs
                          THEN StInstalledNotRunning
                          ELSE StAbsent

\* ------------------------------------------------------------------------
\* C13
\* ------------------------------------------------------------------------

\* The entries of the map results, and the hosts probed so far.
ResultEntries == {a \in Hosts : results[a] # "none"}
ProbedHosts == IF pc = "statusChecked" THEN Hosts ELSE 1..(idx - 1)

\* C13 as stated: the map checkRKE2Status returns has one entry per configured
\* host and every entry is absent, installed-not-running, running-not-ready
\* or ready.
C13_FourStatesOnePerHost ==
    pc = "statusChecked" =>
        /\ Cardinality(ResultEntries) = NumHosts
        /\ \A a \in ResultEntries :
              results[a] \in {StAbsent, StInstalledNotRunning, StRunningNotReady, StReady}

\* C13 amended: every status assigned is one of the four states or
\* check-failed, whatever the probe commands return: check-failed exactly
\* when the installed check ends with an error other than exit status 1,
\* absent exactly when it answers "not installed", installed-not-running
\* exactly when the is-active query of an installed host returns an error,
\* running-not-ready or ready exactly when the node query was reached, ready
\* only if that query returned without error. The map has one entry per
\* distinct host address, so one per configured host when the addresses are
\* distinct.
C13_FiveStatesOnePerAddress ==
    /\ \A a \in ResultEntries :
          results[a] \in {StAbsent, StInstalledNotRunning, StRunningNotReady, StReady,
                          StCheckFailed}
    /\ lastCmd.kind # "none" =>
          /\ status = StCheckFailed <=> (lastCmd.kind = "checkInstalled" /\ ~lastCmd.ok)
          /\ status = StAbsent <=> (lastCmd.kind = "checkInstalled" /\ lastCmd.ok)
          /\ status = StInstalledNotRunning <=> lastCmd.kind = "isActive"
          /\ status \in {StRunningNotReady, StReady} <=> lastCmd.kind = "nodeReady"
          /\ status = StReady => lastCmd.ok
    /\ ResultEntries = {ips[h] : h \in ProbedHosts}
    /\ (pc = "statusChecked" /\ \A g, h \in Hosts : ips[g] = ips[h] => g = h)
          => Cardinality(ResultEntries) = NumHosts

C13_Witness ==
    /\ pc = "statusChecked"
    /\ \A g, h \in Hosts : ips[g] = ips[h] => g = h
    /\ \E a \in Hosts : results[a] = StCheckFailed
    /\ status = StRunningNotReady /\ ~lastCmd.ok

\* ------------------------------------------------------------------------
\* C14
\* ------------------------------------------------------------------------

\* The first probe has answered, and it found the file with the size and the
\* md5 of the local file.
RemoteProbed == remoteInfo # NoInfo
RemoteFoundEqual ==
    /\ remoteInfo \in FileInfos
    /\ remoteInfo.size = localInfo.size /\ remoteInfo.md5 = localInfo.md5

\* The transfer commands issued so far.
TransferCmds == SelectSeq(cmds, LAMBDA c : c \in {"rsync", "scp"})

\* C14: when the probe finds the remote file with the size and the md5 of the
\* local file, transferFileWithProgress returns nil and has issued no rsync
\* and no scp, only that probe.
C14_EqualRemoteNoTransfer ==
    (RemoteProbed /\ RemoteFoundEqual) =>
        /\ pc = "returned" /\ ret = "nil"
        /\ cmds = <<"probe">>
        /\ TransferCmds = <<>>

C14_Witness ==
    /\ pc = "returned" /\ ret = "nil"
    /\ remoteInfo = localInfo /\ remoteInfo.size = MaxSize
    /\ cmds = <<"probe">>

\* ------------------------------------------------------------------------
\* C15
\* ------------------------------------------------------------------------

\* C15 as stated: when the probe finds the remote file missing or different,
\* transferFileWithProgress issues exactly one transfer command and then
\* exactly one more probe, and returns nil only if that probe finds the size
\* and the md5 of the local file.
C15_OneTransferOneReprobe ==
    (pc = "returned" /\ RemoteProbed /\ ~RemoteFoundEqual) =>
        /\ cmds \in {<<"probe", "rsync", "probe">>, <<"probe", "scp", "probe">>}
        /\ ret = "nil" =>
              finalInfo.size = localInfo.size /\ finalInfo.md5 = localInfo.md5

\* C15 amended: when the probe finds the remote file missing or different,
\* one transfer attempt is made: rsync when it is available, then scp if
\* rsync was unavailable or failed, so one or two transfer commands. If a
\* transfer command succeeds exactly one more probe follows and the return is
\* nil exactly when that probe finds the size and the md5 of the local file;
\* if scp fails too an error is returned without a further probe. The return
\* is never nil without that verification.
C15_TransferThenVerify ==
    (RemoteProbed /\ ~RemoteFoundEqual) =>
        /\ Len(cmds) >= 2 => TransferCmds \in {<<"rsync">>, <<"scp">>, <<"rsync", "scp">>}
        /\ cmds \in {<<"probe">>, <<"probe", "rsync">>, <<"probe", "scp">>,
                      <<"probe", "rsync", "scp">>, <<"probe", "rsync", "probe">>,
                      <<"probe", "scp", "probe">>, <<"probe", "rsync", "scp", "probe">>}
        /\ pc = "returned" =>
              /\ ret # "none"
              /\ ret = "errTransfer" <=> cmds[Len(cmds)] = "scp"
              /\ ret = "errTransfer" <=> finalInfo = NoInfo
              /\ ret # "errTransfer" =>
                    /\ cmds[Len(cmds)] = "probe" /\ cmds[Len(cmds) - 1] # "probe"
                    /\ ret \in {"nil", "errVerify", "errMismatch"}
              /\ ret = "nil" <=>
                    /\ finalInfo \in FileInfos
                    /\ finalInfo.size = localInfo.size
                    /\ finalInfo.md5 = localInfo.md5

C15_Witness ==
    /\ pc = "returned" /\ ret = "nil"
    /\ remoteInfo \in FileInfos /\ remoteInfo.size # localInfo.size
    /\ cmds = <<"probe", "rsync", "scp", "probe">>

\* ------------------------------------------------------------------------
\* C16
\* ------------------------------------------------------------------------

\* C16: when the transfer of a required artifact fails (the local file is
\* missing, a glob pattern matches nothing, the transfer fails or the remote
\* copy does not verify), distribution returns the error and Run returns an
\* error at once; when the transfer of an optional artifact fails, a warning
\* is logged and the loop goes on with the next artifact. When the validation
\* of a required artifact fails Run returns an error; an optional artifact is
\* not validated.
C16_RequiredAbortsOptionalWarns ==
    /\ [][ (pc = "artifactLoop" /\ ret' # "nil") =>
              IF artifacts[idx].required
              THEN pc' = "done" /\ result' = "error" /\ errKind' = "transfer"
              ELSE /\ result' = "none"
                   /\ warnings' = warnings \cup {"optionalArtifact"}
                   /\ IF idx < NumArtifacts
                      THEN pc' = "artifactLoop" /\ idx' = idx + 1
                      ELSE pc' = "chmod" ]_vars
    /\ [][ pc = "validateLoop" =>
              IF artifacts[idx].required
              THEN ret' # "nil" =>
                      pc' = "done" /\ result' = "error" /\ errKind' = "validate"
              ELSE ret' = "skipped" /\ result' = "none" /\ warnings' = warnings ]_vars

C16_Witness ==
    /\ "optionalArtifact" \in warnings
    /\ pc = "done" /\ result = "error" /\ errKind = "transfer"
    /\ ret = "errNoMatch" /\ artifacts[idx].required

\* ------------------------------------------------------------------------
\* C17
\* ------------------------------------------------------------------------

\* C17: the seed is the first host in declaration order with the tag etcd or
\* master; the seed gets the first install call, as first server, and no
\* other; the config file written for the seed has no "server:" line and the
\* config file written for any other host, server or agent, has the line
\* "server: https://<address of the seed>:9345".
C17_SeedAloneHasNoJoinTarget ==
    /\ \A h \in Hosts :
          h = Seed <=> /\ HasEtcdTag(h) \/ HasMasterTag(h)
                       /\ \A g \in 1..(h - 1) : ~(HasEtcdTag(g) \/ HasMasterTag(g))
    /\ \A i \in 1..Len(installCalls) : i = 1 <=> installCalls[i] = Seed
    /\ cpc # "none" => (call.first <=> call.host = Seed)
    /\ configFile # NoConfig =>
          /\ cpc # "none" /\ call.check # "installed"
          /\ configFile.server = IF call.host = Seed
                                 THEN <<>>
                                 ELSE <<"https", ips[Seed], SupervisorPort>>

C17_Witness ==
    /\ Seed = 2 /\ HasMasterTag(3)
    /\ call.nodeType = "agent" /\ call.host = 1
    /\ configFile = [kind |-> "worker", server |-> <<"https", ips[2], SupervisorPort>>,
                     disable |-> {}]

\* ------------------------------------------------------------------------
\* C18
\* ------------------------------------------------------------------------

\* C18: when no host has the tag etcd or master, Run returns the error of the
\* missing first node and has issued no remote command: no probe, no
\* directory creation, no transfer, no install call on any host.
C18_NoSeedNoRemoteCommand ==
    (\A h \in Hosts : ~HasEtcdTag(h) /\ ~HasMasterTag(h)) =>
        /\ pc \in {"start", "done"}
        /\ pc = "done" => result = "error" /\ errKind = "noSeed"
        /\ lastCmd = NoCmd
        /\ installCalls = <<>> /\ cpc = "none"
        /\ finalStatus = NoStatus /\ probedReady = {}

C18_Witness ==
    /\ pc = "done" /\ result = "error" /\ errKind = "noSeed"
    /\ \E h \in Hosts : IsPureWorker(h)
    /\ \E h \in Hosts : RolesOf(h) = <<"control">>
    /\ lastCmd = NoCmd

\* ------------------------------------------------------------------------
\* C19
\* ------------------------------------------------------------------------

\* Membership of a host in a host list.
InList(h, list) == \E i \in 1..Len(list) : list[i] = h

\* C19: a host with any of the tags etcd, master or control is in the server
\* set, a host with the tag worker and none of those is in the worker set,
\* so every host whose role list config validation accepts is in the server
\* set or in the worker set, and has received an install call once the
\* rollout phases have completed.
C19_EveryAcceptedHostIsInstalled ==
    /\ \A h \in Hosts :
          (HasEtcdTag(h) \/ HasMasterTag(h) \/ hasRole(RolesOf(h), "control"))
              => InList(h, getServerHosts)
    /\ \A h \in Hosts :
          ( /\ HasWorkerTag(h)
            /\ ~(HasEtcdTag(h) \/ HasMasterTag(h) \/ hasRole(RolesOf(h), "control")) )
              => InList(h, getAgentHosts)
    /\ \A h \in Hosts :
          validateRoles(config[h].Role)
              => /\ InList(h, getServerHosts) \/ InList(h, getAgentHosts)
                 /\ RolloutCompleted => CallCount(h) >= 1

\* ------------------------------------------------------------------------
\* C20
\* ------------------------------------------------------------------------

\* The host has been given its taints, and it is a control-plane host (tag
\* etcd or master) without taints of the user.
TaintsComputed(h) == taints[h] # "none"
ControlPlaneNoOverride(h) ==
    (HasEtcdTag(h) \/ HasMasterTag(h)) /\ config[h].NodeTaint = <<>>

\* C20: getRecommendedTaints returns the user's taints unchanged for a host
\* that has some, whatever the topology; for a control-plane host without
\* user taints it returns the control-plane:NoSchedule taint when some host is
\* a pure worker and the control-plane:PreferNoSchedule taint when none is,
\* so all such hosts of one configuration get the same taint; a host that is
\* not control-plane and has no user taints gets none.
C20_TaintsFollowOverrideThenTopology ==
    /\ \A h \in Hosts : TaintsComputed(h) =>
          /\ config[h].NodeTaint # <<>> => taints[h] = config[h].NodeTaint
          /\ ControlPlaneNoOverride(h) =>
                taints[h] = IF \E g \in Hosts : IsPureWorker(g)
                            THEN <<"node-role.kubernetes.io/control-plane:NoSchedule">>
                            ELSE <<"node-role.kubernetes.io/control-plane:PreferNoSchedule">>
          /\ (config[h].NodeTaint = <<>> /\ ~ControlPlaneNoOverride(h)) => taints[h] = <<>>
    /\ \A g, h \in Hosts :
          ( /\ TaintsComputed(g) /\ TaintsComputed(h)
            /\ ControlPlaneNoOverride(g) /\ ControlPlaneNoOverride(h) )
              => taints[g] = taints[h]

C20_Witness ==
    /\ pc = "taintsDone"
    /\ \E g, h \in Hosts :
          /\ g # h
          /\ ControlPlaneNoOverride(g) /\ ControlPlaneNoOverride(h)
          /\ taints[g] = <<ControlPlaneNoSchedule>> /\ taints[h] = taints[g]
    /\ \E h \in Hosts : IsPureWorker(h) /\ Len(taints[h]) = 2

\* ------------------------------------------------------------------------
\* C21
\* ------------------------------------------------------------------------

\* The host carries the three tags etcd, master and worker.
HasAllThreeTags(h) == HasEtcdTag(h) /\ HasMasterTag(h) /\ HasWorkerTag(h)

\* C21: hasWorkerNodes is true exactly when some host has the tag worker and
\* neither the tag etcd nor the tag master, which is exactly when
\* getAgentHosts is not empty; in a configuration where every host with the
\* tag worker also has the tag etcd or master there is no worker pool, and a
\* host with the tags etcd, master and worker gets the PreferNoSchedule taint.
C21_WorkerPoolIsAgentSet ==
    /\ hasWorkerNodes <=> (\E h \in Hosts : IsPureWorker(h))
    /\ hasWorkerNodes <=> (Len(getAgentHosts) > 0)
    /\ \A h \in Hosts :
          ( /\ TaintsComputed(h)
            /\ HasAllThreeTags(h)
            /\ \A g \in Hosts : HasWorkerTag(g) => (HasEtcdTag(g) \/ HasMasterTag(g)) )
              => /\ ~hasWorkerNodes
                 /\ taints[h] = <<"node-role.kubernetes.io/control-plane:PreferNoSchedule">>

\* Every host has the three tags, and the taints of all are computed.
C21_Witness ==
    /\ pc = "taintsDone"
    /\ \A h \in Hosts : HasAllThreeTags(h)
    /\ \A h \in Hosts : taints[h] = <<ControlPlanePreferNoSchedule>>
    /\ getAgentHosts = <<>>

\* ------------------------------------------------------------------------
\* C22
\* ------------------------------------------------------------------------

\* The role list has an entry that is a role tag once trimmed and lowered.
HasValidRoleTag(roles) ==
    \E i \in 1..Len(roles) : TrimLower(roles[i]) \in {"etcd", "master", "worker", "control"}

\* The host entry has what the validation is said to require.
HostAcceptable(host) ==
    /\ host.IP # 0
    /\ host.User # ""
    /\ HasValidRoleTag(host.Role)
    /\ host.Password # "" \/ host.SSHKey # ""

\* C22: validateConfig rejects a configuration without hosts and a
\* configuration with a host that lacks an address, a user, a valid role tag
\* (a role list of blank entries has none) or both password and key file,
\* and it accepts every other configuration.
C22_ValidationRejectsExactly ==
    pc = "validated" =>
        ( ret = "nil" <=>
            ( /\ Len(config) > 0
              /\ \A i \in 1..Len(config) : HostAcceptable(config[i]) ) )

\* ------------------------------------------------------------------------
\* C23
\* ------------------------------------------------------------------------

\* The list holds the first hosts of the configuration, in declaration order.
IsPrefixOfHostList(list) ==
    /\ Len(list) <= NumHosts
    /\ \A i \in 1..Len(list) : list[i] = HostList[i]

\* An install call has been made, or a step of one has been issued.
InstallBegun ==
    \/ installCalls # <<>>
    \/ cpc # "none"
    \/ lastCmd.kind \in InstallStepKinds \cup {"checkInstalled"}

\* C23: no install call and no install step begins before the artifacts have
\* been distributed to every configured host and, after that, the packages
\* have been validated on every configured host. Distribution and validation
\* take the hosts one at a time in declaration order, validation starts only
\* when distribution is complete, and a failure of the directory creation or
\* of the transfer on a host ends Run with an error, the later hosts having
\* received nothing.
C23_DistributionBeforeInstall ==
    /\ IsPrefixOfHostList(sent) /\ IsPrefixOfHostList(validated)
    /\ validated # <<>> => sent = HostList
    /\ InstallBegun => (sent = HostList /\ validated = HostList)
    /\ lastCmd.kind = "mkdir" => lastCmd.host = HostList[Len(sent) + 1]
    /\ (lastCmd.kind = "transfer" /\ lastCmd.ok) => lastCmd.host = sent[Len(sent)]
    /\ (lastCmd.kind = "transfer" /\ ~lastCmd.ok) => lastCmd.host = HostList[Len(sent) + 1]
    /\ (lastCmd.kind \in {"mkdir", "transfer"} /\ ~lastCmd.ok)
          => (pc = "done" /\ result = "error" /\ validated = <<>> /\ installCalls = <<>>)
    /\ (lastCmd.kind = "validate" /\ ~lastCmd.ok)
          => (pc = "done" /\ result = "error" /\ installCalls = <<>>)

\* The first install step of the run has been issued.
C23_Witness ==
    /\ Len(installCalls) = 1
    /\ lastCmd.kind = "config"
    /\ sent = HostList /\ validated = HostList
    /\ NumHosts > 1

\* ------------------------------------------------------------------------
\* C24
\* ------------------------------------------------------------------------

\* Run is in one of its two polling loops.
InReadinessWait == pc \in {"waitServer", "waitCluster", "skipWait"}

\* C24: when every remote command returns, Run ends, with success or with an
\* error. A readiness wait (of the seed, of the cluster) probes only while
\* fewer than 60 probes have been made. A status check of the monitor is made
\* only while fewer than 12 have been made, each check but the last being
\* followed by one sleep of 10 s; a check that finds every host ready ends
\* the monitor at once; the monitor goes on to the final probe whatever it
\* saw and never makes Run return.
C24_BoundedWaitsThenTermination ==
    /\ <>(pc = "done" /\ result \in {"ok", "error"})
    /\ [](tries <= 60)
    /\ [][InReadinessWait => (tries < 60 /\ tries' <= tries + 1)]_vars
    /\ [](pc = "monitor" => (elapsed <= 110 /\ elapsed = 10 * sleeps /\ sleeps <= 11))
    /\ [][pc = "monitor" =>
            /\ pc' \in {"monitor", "final"} /\ result' = "none"
            /\ allRunning' = "yes" => pc' = "final"
            /\ pc' = "monitor" =>
                  (allRunning' = "no" /\ sleeps' = sleeps + 1 /\ elapsed' = elapsed + 10)
            /\ pc' = "final" => (sleeps' <= sleeps /\ (allRunning' = "yes" \/ sleeps = 11))]_vars

\* The monitor is about to make its twelfth status check.
C24_Witness ==
    pc = "monitor" /\ sleeps = 11 /\ elapsed = 110 /\ allRunning = "no"

\* ------------------------------------------------------------------------
\* C25
\* ------------------------------------------------------------------------

\* A node section has been generated (for the host ret.host).
SectionGenerated == pc = "nodeProbe"

\* The internal address of the host, the external one when none is configured.
EffectiveInternalIP(h) ==
    IF config[h].InternalIP # 0 THEN config[h].InternalIP ELSE ips[h]

\* C25: the node section generated for a host has as node-ip the internal
\* address of the host when one is configured and its external address when
\* none is; it has a node-external-ip line, holding the external address,
\* exactly when the two addresses differ; its node-name is the configured
\* name, or the external address when none is configured.
C25_NodeAddressDefaults ==
    SectionGenerated =>
        LET h == ret.host
        IN  /\ ret.nodeIp = EffectiveInternalIP(h)
            /\ ret.nodeExternalIp = IF EffectiveInternalIP(h) # ips[h] THEN ips[h] ELSE 0
            /\ ret.nodeName = IF config[h].NodeName # 0 THEN config[h].NodeName ELSE ips[h]

\* ------------------------------------------------------------------------
\* C26
\* ------------------------------------------------------------------------

\* C26: once cancellation has been asked for, Run issues no further remote
\* command (probe, transfer, install step, polling attempt) and makes no
\* further install call: its next step is its return.
C26_CancelStopsRun ==
    [][(cancelled /\ pc # "done") =>
          (pc' = "done" /\ lastCmd' = lastCmd /\ installCalls' = installCalls)]_vars

\* ------------------------------------------------------------------------
\* C27
\* ------------------------------------------------------------------------

\* The host ret.host has been installed with the node section ret and then
\* probed.
NodeProbed == pc \in {"nodeSection", "nodesDone"} /\ sig.kube # "none"

\* C27: the node name by which the probe queries the Ready condition of a
\* host is the node-name written to the config of that host, so a host whose
\* service is active and whose node is Ready gets the status ready, with or
\* without a configured node_name.
C27_ProbeQueriesConfiguredName ==
    NodeProbed =>
        /\ NodeQueryName(ret.host) = ret.nodeName
        /\ ( /\ ServiceIsActive(RolesOf(ret.host), sig)
             /\ sig.nodeName = ret.nodeName
             /\ sig.nodeCondition = "True" ) => status = StReady

\* ------------------------------------------------------------------------
\* C28
\* ------------------------------------------------------------------------

\* C28: waitForClusterReady returns nil only on a probe that finds at least
\* one registered node and finds every registered node with the status
\* Ready; a probe that finds a node NotReady does not end the wait with
\* success.
C28_SuccessOnlyWhenAllNodesReady ==
    (pc = "clusterDone" /\ ret = "nil") =>
        /\ Len(sig.nodes) > 0
        /\ \A i \in 1..Len(sig.nodes) : sig.nodes[i] = ReadyText

\* ------------------------------------------------------------------------
\* C29
\* ------------------------------------------------------------------------

\* C29: when Run returns the partial-failure error, the final probe has
\* found some host absent, and the failed-host list of the error is not
\* empty and holds exactly the hosts the final probe found absent.
C29_PartialFailureNamesAbsentHosts ==
    (pc = "done" /\ result = "error" /\ errKind = "partial") =>
        /\ \E h \in Hosts : finalStatus[h] = StAbsent
        /\ failedHosts # {}
        /\ failedHosts = {h \in Hosts : finalStatus[h] = StAbsent}

\* ------------------------------------------------------------------------
\* C30
\* ------------------------------------------------------------------------

\* C30: when checkRKE2Installed ends with an error (any failure other than the
\* probe's exit code 1), the install call does not end: neither the call nor
\* Run returns at the check, and the call goes on with config generation, the
\* install script and the service start (then, for the first server, kubectl
\* and the node wait), each on the host of the call and each ending the call
\* and Run with an error when it fails, which is step for step what a call
\* does whose check found the host absent.
C30_CheckErrorMeansFullInstall ==
    /\ [][ (cpc = "check" /\ call'.check = "error") =>
              /\ lastCmd' = [host |-> call.host, kind |-> "checkInstalled", ok |-> FALSE]
              /\ cpc' = "config" /\ cpc' = StepAfterCheck("notInstalled")
              /\ pc' = pc /\ result' = "none" /\ errKind' = errKind ]_vars
    /\ [][ (call.check = "error" /\ cpc \in {"config", "script", "start"}) =>
              /\ lastCmd'.kind = cpc /\ lastCmd'.host = call.host
              /\ IF lastCmd'.ok
                 THEN cpc' = CASE cpc = "config" -> "script"
                               [] cpc = "script" -> "start"
                               [] cpc = "start" -> IF call.first THEN "kubectl" ELSE "none"
                 ELSE cpc' = "none" /\ pc' = "done" /\ result' = "error" ]_vars

C30_Witness ==
    /\ call.check = "error" /\ call.first
    /\ configFile.kind = "first-master"
    /\ lastCmd = [host |-> call.host, kind |-> "start", ok |-> TRUE]
    /\ cpc = "kubectl"

====
